---- MODULE Spec2Model ----
(***************************************************************************)
(* Feed state synchronisation of junokira/fuse.                            *)
(*                                                                         *)
(* Spec        : toggleLike of the Supabase client with optimistic updates *)
(*               and a realtime subscription (src/unnamed/part_002, the    *)
(*               App.tsx variant, lines 1-543; the App.jsx variant below   *)
(*               it is the same code), beside the realtime handlers.       *)
(* SpecPublish : publishPost and the composer of the same client.          *)
(* SpecLists   : the Supabase client that keeps likedPosts / recastedPosts *)
(*               arrays and writes them from the render closure            *)
(*               (src/unnamed/part_001).                                   *)
(***************************************************************************)
EXTENDS Integers, Sequences, FiniteSets, TLC

\* ------------------------------------------------------------------ bounds
MaxTime    == 1   \* the clock runs over 0..MaxTime
MaxLikes   == 1   \* likes other users may hold on one post at the server
MaxChan    == 1   \* realtime events in flight; a further event is lost
MaxCalls   == 2   \* async invocations in flight at once
MaxPublish == 1   \* publishPost invocations per behaviour
MaxFiles   == 1   \* files picked in the composer at once
MaxToggles == 3   \* toggle invocations per behaviour

\* ------------------------------------------------------- program constants
PostsCap == 500   \* [newPost, ...cur].slice(0, 500)
TextLimit == 500  \* overLimit = text.length > 500

Null    == "null"
NullInt == 0 - 1         \* a null number of a row (likes, created_at)
NullSeq == <<Null>>      \* a null text or media of a row
Viewer == "u1"    \* session.user.id
Author == "u2"    \* every other user

InitIds   == {1}                    \* rows of the posts table at start-up
InitLiked == {}                     \* the posts the viewer likes at start-up
SrvIds    == 1 .. (1 + MaxPublish)  \* ids the server assigns
LocalBase == 100                    \* `local-...` ids are LocalBase + k
Files     == {"f"}
LongText  == [i \in 1 .. TextLimit + 1 |-> "a"]   \* a text over the limit
Texts     == {<<>>, <<" ">>, <<"a">>, LongText}

VARIABLES
  session,        \* part_002: session?.user id, or Null
  posts,          \* the posts list (Post[])
  userLikes,      \* part_002: keys of the userLikes map
  newText,        \* part_002: composer text
  newFiles,       \* part_002: composer files
  now,            \* Date.now()
  srvPosts,       \* the remote posts table: id -> row or Null
  srvLikes,       \* the viewer's rows of the remote likes table (post ids)
  chan,           \* realtime events emitted and not yet delivered
  calls,          \* async invocations in flight, in dispatch order
  nextLocal,      \* number of publishPost invocations so far
  serial,         \* history: the flags that the successful toggles leave when run one by one
  last,           \* history: the invocation that resolved in the last step
  likedPosts,     \* part_001: likedPosts array
  recastedPosts,  \* part_001: recastedPosts array
  srvRecasts,     \* part_001: the viewer's rows of the remote post_recasts table
  run,            \* part_001 history: how the toggle invocations overlapped so far
  ntoggles,       \* number of toggle invocations so far
  activeTab,      \* part_001: the feed's tab
  search,         \* part_001: the search string
  followingIds,   \* part_001: the users the viewer follows
  runs,           \* part_001 history: the last two runs of the filtered memo
  variant,        \* stories: the client that runs
  stories,        \* the stories list (Story[])
  tray,           \* StoriesTray: the value of its memo and the clock value it was computed at
  tick,           \* part_000, part_001: the tick state, the number of 60 s refreshes
  pruned,         \* part_000: the number of runs of the prune interval
  draftBio,       \* ProfileScreen: the bio being edited
  draftLinks,     \* ProfileScreen: the links text being edited
  profile,        \* the viewer's bio and links in the local state
  srvProfile,     \* the viewer's bio and links in the remote table
  sorting,        \* a forYou sort in progress: items.sort(...) and its position
  draft,          \* Composer: text and images
  pub,            \* Composer: the publish invocation in flight, with its closure
  store,          \* Composer: posts and stories of the local store
  remote,         \* Composer: rows of the remote posts and stories tables
  route,          \* ProfileScreen: the user whose profile is shown
  followList,     \* the follow set in the local state (string[])
  srvFollowing,   \* the viewer's rows of the remote following table
  fcalls          \* toggleFollow invocations in flight, each with its closure

vars == <<session, posts, userLikes, newText, newFiles, now, srvPosts, srvLikes,
          chan, calls, nextLocal, serial, last, likedPosts, recastedPosts, srvRecasts, run,
          ntoggles, activeTab, search, followingIds, runs, variant, stories, tray, tick,
          pruned, draftBio, draftLinks, profile, srvProfile, sorting, draft, pub, store,
          remote, route, followList, srvFollowing, fcalls>>

\* state of the profile screen
profileVars == <<draftBio, draftLinks, profile, srvProfile>>

\* state of the stories tray
storyVars == <<variant, stories, tray, tick, pruned>>

\* state next to the feed's lists
\* state of the composer
composeVars == <<draft, pub, store, remote>>

\* state of the follow button
followVars == <<route, followList, srvFollowing, fcalls>>

screenVars == <<storyVars, profileVars, sorting, composeVars, followVars>>

\* part_001 state of the ranking
rankVars == <<activeTab, search, followingIds, runs>>

listsVars == <<likedPosts, recastedPosts, srvRecasts, run, ntoggles, rankVars, screenVars>>

\* part_001 state that toggleLike of part_002 leaves alone
listsState == <<likedPosts, recastedPosts, srvRecasts, run, rankVars, screenVars>>

\* the stories tray is not on screen
NoStories ==
  /\ variant = "none"
  /\ stories = <<>>
  /\ tray = [at |-> 0, items |-> <<>>]
  /\ tick = 0
  /\ pruned = 0

\* no sort is running
NoSort == [pc |-> "idle", items |-> <<>>, i |-> 0, j |-> 0, sb |-> 0, reads |-> {}]

\* bio and links of a user
Profile(bio, links) == [bio |-> bio, links |-> links]

\* the profile screen is not on screen
NoProfile ==
  /\ draftBio = <<>>
  /\ draftLinks = <<>>
  /\ profile = Profile(<<>>, <<>>)
  /\ srvProfile = Profile(<<>>, <<>>)

\* no publish of the Composer is running
NoPub ==
  [ pc |-> "idle", kind |-> "post", text |-> <<>>, images |-> <<>>, ok |-> TRUE, n |-> 0,
    post |-> [id |-> 0, userId |-> 0, text |-> <<>>, media |-> <<>>],
    base |-> [lp |-> 0, ls |-> 0, rp |-> 0, rs |-> 0] ]

\* the Composer is not on screen
NoCompose ==
  /\ draft = [text |-> <<>>, images |-> <<>>]
  /\ pub = NoPub
  /\ store = [posts |-> <<>>, stories |-> <<>>]
  /\ remote = [posts |-> <<>>, stories |-> <<>>]

\* no profile is open and no follow button was clicked
NoFollow ==
  /\ route = 0
  /\ followList = <<>>
  /\ srvFollowing = <<>>
  /\ fcalls = <<>>

\* ----------------------------------------------------------------- helpers
Min(a, b) == IF a < b THEN a ELSE b

\* cur.filter((p) => p.id !== id)
SeqFilterIdNot(s, id) == SelectSeq(s, LAMBDA p : p.id # id)

\* cur.some((p) => p.id === id)
HasId(s, id) == \E i \in 1 .. Len(s) : s[i].id = id

\* the first entry with this id (posts.find)
FindId(s, id) == s[CHOOSE i \in 1 .. Len(s) : s[i].id = id /\ \A j \in 1 .. i - 1 : s[j].id # id]

\* s.slice(0, n)
Slice(s, n) == SubSeq(s, 1, Min(Len(s), n))

IsSpace(c) == c = " "

RECURSIVE TrimLeft(_)
TrimLeft(t) == IF t # <<>> /\ IsSpace(Head(t)) THEN TrimLeft(Tail(t)) ELSE t

RECURSIVE TrimRight(_)
TrimRight(t) ==
  IF t # <<>> /\ IsSpace(t[Len(t)]) THEN TrimRight(SubSeq(t, 1, Len(t) - 1)) ELSE t

\* String.prototype.trim
Trim(t) == TrimRight(TrimLeft(t))

\* ------------------------------------------------------- part_002: mapping
\* mapPostRow(row), evaluated when Date.now() = t
mapPostRow(row, t) ==
  [ id        |-> row.id,
    userId    |-> row.user_id,
    text      |-> IF row.text = NullSeq THEN <<>> ELSE row.text,
    media     |-> IF row.media = NullSeq THEN <<>> ELSE row.media,
    likes     |-> IF row.likes = NullInt THEN 0 ELSE row.likes,
    recasts   |-> IF row.recasts = NullInt THEN 0 ELSE row.recasts,
    comments  |-> IF row.comments = NullInt THEN 0 ELSE row.comments,
    createdAt |-> IF row.created_at = NullInt THEN t ELSE row.created_at,
    optimistic |-> FALSE ]

\* a row of the remote posts table
Row(id, user, text, media, likes, at) ==
  [ id |-> id, user_id |-> user, text |-> text, media |-> media,
    likes |-> likes, recasts |-> 0, comments |-> 0, created_at |-> at ]

\* ------------------------------------------------- part_002: realtime merge
\* INSERT handler
MergeInsert(cur, row, t) ==
  LET newPost == mapPostRow(row, t)
  IN IF HasId(cur, newPost.id) THEN cur ELSE Slice(<<newPost>> \o cur, PostsCap)

\* an UPDATE handler that adds the post when the list does not hold it
MergeUpdateUpsert(cur, row, t) ==
  LET updated == mapPostRow(row, t)
  IN IF HasId(cur, updated.id)
     THEN [i \in 1 .. Len(cur) |-> IF cur[i].id = updated.id THEN updated ELSE cur[i]]
     ELSE <<updated>> \o cur

\* UPDATE handler
MergeUpdate(cur, row, t) ==
  LET updated == mapPostRow(row, t)
  IN [i \in 1 .. Len(cur) |-> IF cur[i].id = updated.id THEN updated ELSE cur[i]]

\* a handler that drops the head of the list
MergeDeleteHead(cur, row) == IF cur = <<>> THEN cur ELSE Tail(cur)

\* DELETE handler
MergeDelete(cur, row) == SeqFilterIdNot(cur, row.id)

Merge(cur, e, t) ==
  CASE e.kind = "INSERT" -> MergeInsert(cur, e.row, t)
    [] e.kind = "UPDATE" -> MergeUpdate(cur, e.row, t)
    [] e.kind = "DELETE" -> MergeDelete(cur, e.row)

\* the realtime stream delivers with gaps: an event that finds the stream full is lost
Emit(ch, e) == IF Len(ch) < MaxChan THEN Append(ch, e) ELSE ch

\* --------------------------------------------------- invocations in flight
NoRow   == Row(0, Null, <<>>, <<>>, 0, 0)        \* no row: an id the server has not assigned
GoneRow == Row(0 - 1, Null, <<>>, <<>>, 0, 0)    \* the row of a deleted post

ServerHas(tbl, p) == p \in SrvIds /\ tbl[p].id = p

LikeCall(p, already, likes0, alone, seq) ==
  [ kind |-> "like", pc |-> "op", post |-> p, already |-> already, res |-> "none", seq |-> seq,
    likes0 |-> IF alone THEN likes0 ELSE 0, touch |-> IF alone THEN "none" ELSE "other",
    text |-> <<>>, files |-> <<>>, urls |-> <<>>, data |-> NoRow, snapPosts |-> <<>>,
    snapFlags |-> <<>> ]

PublishCall(localId, text, files) ==
  [ kind |-> "publish", pc |-> IF files = <<>> THEN "insert" ELSE "upload", post |-> localId,
    already |-> FALSE, res |-> "none", seq |-> 0,
    likes0 |-> 0, touch |-> "none",
    text |-> text, files |-> files, urls |-> <<>>, data |-> NoRow, snapPosts |-> <<>>,
    snapFlags |-> <<>> ]

NoCall == [LikeCall(0, FALSE, 0, FALSE, 0) EXCEPT !.kind = "none"]

NoLast == [ call |-> NoCall, outcome |-> "none", alert |-> Null ]

Resolved(c, outcome, alert) == [ call |-> c, outcome |-> outcome, alert |-> alert ]

RemoveAt(s, i) == SubSeq(s, 1, i - 1) \o SubSeq(s, i + 1, Len(s))

\* history: something other than the invocation itself wrote post p, so its like
\* invocations in flight are no longer alone on p; touch is "event" once a realtime
\* event for p was merged under them, "other" for every other writer. likes0, the
\* counter the invocation found, is kept only while it is alone.
Touch(cs, p, byEvent) ==
  [i \in 1 .. Len(cs) |->
     IF cs[i].kind = "like" /\ cs[i].post = p
     THEN [cs[i] EXCEPT !.likes0 = 0,
                        !.touch = IF byEvent \/ @ = "event" THEN "event" ELSE "other"]
     ELSE cs[i]]

TouchAll(cs) ==
  [i \in 1 .. Len(cs) |->
     IF cs[i].kind = "like"
     THEN [cs[i] EXCEPT !.likes0 = 0, !.touch = IF @ = "event" THEN "event" ELSE "other"]
     ELSE cs[i]]

LikesOf(cur, p) == IF HasId(cur, p) THEN FindId(cur, p).likes ELSE 0

\* cur.map((p) => (p.id === id ? { ...p, likes: p.likes + d } : p))
AddLikes(cur, id, d) ==
  [i \in 1 .. Len(cur) |-> IF cur[i].id = id THEN [cur[i] EXCEPT !.likes = @ + d] ELSE cur[i]]

\* cur.map((p) => (p.id === id ? { ...p, likes: v ?? p.likes } : p))
SetLikes(cur, id, v) ==
  [i \in 1 .. Len(cur) |->
     IF cur[i].id = id THEN [cur[i] EXCEPT !.likes = IF v = NullInt THEN @ ELSE v] ELSE cur[i]]

\* cur.map((p) => (p.id === id ? serverPost : p))
ReplacePost(cur, id, serverPost) ==
  [i \in 1 .. Len(cur) |-> IF cur[i].id = id THEN serverPost ELSE cur[i]]

\* --------------------------------------------------------------- part_002
InitRows ==
  [id \in SrvIds |->
     IF id \in InitIds THEN Row(id, Author, <<"a">>, <<>>, 0, 0) ELSE NoRow]

\* init(): the posts are loaded newest first, the viewer's likes after them
Init ==
  /\ NoCompose
  /\ NoFollow
  /\ session = Viewer
  /\ srvPosts = InitRows
  /\ srvLikes = InitLiked
  /\ posts = <<mapPostRow(InitRows[1], 0)>>
  /\ userLikes = InitLiked
  /\ newText = <<>>
  /\ newFiles = <<>>
  /\ now = 0
  /\ chan = <<>>
  /\ calls = <<>>
  /\ nextLocal = 0
  /\ serial = {}
  /\ last = NoLast
  /\ likedPosts = <<>>
  /\ recastedPosts = <<>>
  /\ srvRecasts = {}
  /\ run = "serial"
  /\ ntoggles = 0
  /\ NoStories
  /\ NoProfile
  /\ sorting = NoSort
  /\ activeTab = "forYou"
  /\ search = <<>>
  /\ followingIds = {}
  /\ runs = <<>>

\* the clock advances
Tick ==
  /\ now < MaxTime
  /\ now' = now + 1
  /\ last' = NoLast
  /\ UNCHANGED <<session, posts, userLikes, newText, newFiles, srvPosts, srvLikes, chan,
                 calls, nextLocal, serial, listsVars>>

\* textarea onChange
SetNewText(t) ==
  /\ session # Null
  /\ nextLocal < MaxPublish
  /\ t # newText
  /\ newText' = t
  /\ last' = NoLast
  /\ UNCHANGED <<session, posts, userLikes, newFiles, now, srvPosts, srvLikes, chan, calls,
                 nextLocal, serial, listsVars>>

\* handleFilesChange
HandleFilesChange(fs) ==
  /\ session # Null
  /\ nextLocal < MaxPublish
  /\ fs # newFiles
  /\ newFiles' = fs
  /\ last' = NoLast
  /\ UNCHANGED <<session, posts, userLikes, newText, now, srvPosts, srvLikes, chan, calls,
                 nextLocal, serial, listsVars>>

\* signOut: the flags are cleared, whatever is in flight
SignOut ==
  /\ session # Null
  /\ session' = Null
  /\ userLikes' = {}
  /\ calls' = TouchAll(calls)
  /\ last' = NoLast
  /\ UNCHANGED <<posts, newText, newFiles, now, srvPosts, srvLikes, chan, nextLocal, serial,
                 listsVars>>

\* ---- the remote side: other users and the realtime stream
\* another user likes post p: the row's counter moves and an UPDATE is emitted
OtherLike(p) ==
  /\ ServerHas(srvPosts, p)
  /\ srvPosts[p].likes - (IF p \in srvLikes THEN 1 ELSE 0) < MaxLikes
  /\ srvPosts' = [srvPosts EXCEPT ![p].likes = @ + 1]
  /\ chan' = Emit(chan, [kind |-> "UPDATE", row |-> srvPosts'[p]])
  /\ calls' = Touch(calls, p, FALSE)
  /\ last' = NoLast
  /\ UNCHANGED <<session, posts, userLikes, newText, newFiles, now, srvLikes, nextLocal,
                 serial, listsVars>>

\* another user takes a like back
OtherUnlike(p) ==
  /\ ServerHas(srvPosts, p)
  /\ srvPosts[p].likes - (IF p \in srvLikes THEN 1 ELSE 0) > 0
  /\ srvPosts' = [srvPosts EXCEPT ![p].likes = @ - 1]
  /\ chan' = Emit(chan, [kind |-> "UPDATE", row |-> srvPosts'[p]])
  /\ calls' = Touch(calls, p, FALSE)
  /\ last' = NoLast
  /\ UNCHANGED <<session, posts, userLikes, newText, newFiles, now, srvLikes, nextLocal,
                 serial, listsVars>>

\* the author deletes post p; its likes go with it
RemoteDelete(p) ==
  /\ ServerHas(srvPosts, p)
  /\ srvPosts' = [srvPosts EXCEPT ![p] = GoneRow]
  /\ srvLikes' = srvLikes \ {p}
  /\ chan' = Emit(chan, [kind |-> "DELETE", row |-> srvPosts[p]])
  /\ calls' = Touch(calls, p, FALSE)
  /\ last' = NoLast
  /\ UNCHANGED <<session, posts, userLikes, newText, newFiles, now, nextLocal, serial,
                 listsVars>>

\* the channel's INSERT / UPDATE / DELETE callback runs on the oldest event
Deliver ==
  /\ chan # <<>>
  /\ posts' = Merge(posts, Head(chan), now)
  /\ chan' = Tail(chan)
  /\ calls' = Touch(calls, Head(chan).row.id, TRUE)
  /\ last' = NoLast
  /\ UNCHANGED <<session, userLikes, newText, newFiles, now, srvPosts, srvLikes, nextLocal,
                 serial, listsVars>>

\* at-least-once delivery: the callback runs on an event that stays in the stream
Redeliver ==
  /\ chan # <<>>
  /\ posts' = Merge(posts, Head(chan), now)
  /\ calls' = Touch(calls, Head(chan).row.id, TRUE)
  /\ last' = NoLast
  /\ UNCHANGED <<session, userLikes, newText, newFiles, now, srvPosts, srvLikes, chan,
                 nextLocal, serial, listsVars>>

\* a guard that lets every invocation through
HasUserAlways(s) == TRUE

\* session?.user: a user is signed in
HasUser(s) == s # Null

\* ---- toggleLike
\* the like button exists for every entry of the list
ToggleLikeNoSession(p) ==
  /\ session = Null
  /\ HasId(posts, p)
  /\ last' = Resolved(NoCall, "rejected", "Sign in to like")
  /\ UNCHANGED <<session, posts, userLikes, newText, newFiles, now, srvPosts, srvLikes, chan,
                 calls, nextLocal, serial, listsVars>>

\* setUserLikes: the optimistic flag
FlipFlag(flags, p, already) == IF already THEN flags \ {p} ELSE flags \cup {p}

\* setUserLikes in the catch block: the flag the invocation found
RollbackFlag(flags, p, already) == IF already THEN flags \cup {p} ELSE flags \ {p}

\* the optimistic counter delta
LikeDelta(already) == IF already THEN 0 - 1 ELSE 1

\* toggleLike up to its first await: flag and counter change in one render
ToggleLike(p) ==
  LET already == p \in userLikes
      alone   == \A i \in 1 .. Len(calls) : ~(calls[i].kind = "like" /\ calls[i].post = p)
  IN /\ HasUser(session)
     /\ HasId(posts, p)
     /\ Len(calls) < MaxCalls
     /\ ntoggles < MaxToggles
     /\ ntoggles' = ntoggles + 1
     /\ userLikes' = FlipFlag(userLikes, p, already)
     /\ posts' = AddLikes(posts, p, LikeDelta(already))
     /\ calls' = Append(Touch(calls, p, FALSE),
                         LikeCall(p, already, LikesOf(posts, p), alone, ntoggles + 1))
     /\ last' = NoLast
     /\ UNCHANGED <<session, newText, newFiles, now, srvPosts, srvLikes, chan, nextLocal,
                    serial, listsState>>

\* the likes table after the insert or the delete of the viewer's row
LikesAfterOp(rows, p, already) == IF already THEN rows \ {p} ELSE rows \cup {p}

\* the posts table keeps its likes column equal to the number of like rows
PostsAfterOp(tbl, rows, p, already) ==
  IF ~ServerHas(tbl, p) THEN tbl
  ELSE IF already /\ p \in rows THEN [tbl EXCEPT ![p].likes = @ - 1]
  ELSE IF ~already /\ p \notin rows THEN [tbl EXCEPT ![p].likes = @ + 1]
  ELSE tbl

\* history: toggles run one after the other in dispatch order leave the flag that
\* the last dispatched of the successful ones asked for
SerialAfter(ser, c) ==
  IF \E r \in ser : r.post = c.post /\ r.seq > c.seq THEN ser
  ELSE {r \in ser : r.post # c.post} \cup {[post |-> c.post, flag |-> ~c.already, seq |-> c.seq]}

\* the flag of p in that serial run; a post no toggle succeeded on keeps its first flag
SerialFlag(ser, p) ==
  IF \E r \in ser : r.post = p THEN (CHOOSE r \in ser : r.post = p).flag ELSE p \in InitLiked

\* the insert into / delete from likes succeeds; the select of the counter is sent.
\* An insert needs the post and no row yet; a delete that matches nothing succeeds.
LikeOpOk(i) ==
  LET c == calls[i]
  IN /\ c.kind = "like" /\ c.pc = "op"
     /\ c.already \/ (ServerHas(srvPosts, c.post) /\ c.post \notin srvLikes)
     /\ srvLikes' = LikesAfterOp(srvLikes, c.post, c.already)
     /\ srvPosts' = PostsAfterOp(srvPosts, srvLikes, c.post, c.already)
     /\ chan' = IF srvPosts' # srvPosts
                THEN Emit(chan, [kind |-> "UPDATE", row |-> srvPosts'[c.post]])
                ELSE chan
     /\ calls' = [calls EXCEPT ![i].pc = "read"]
     /\ serial' = SerialAfter(serial, c)
     /\ last' = NoLast
     /\ UNCHANGED <<session, posts, userLikes, newText, newFiles, now, nextLocal, listsVars>>

\* the insert / delete returns an error: the flag is rolled back, the reload is sent
LikeOpFail(i) ==
  LET c == calls[i]
  IN /\ c.kind = "like" /\ c.pc = "op"
     /\ userLikes' = RollbackFlag(userLikes, c.post, c.already)
     /\ calls' = [calls EXCEPT ![i].pc = "reload"]
     /\ last' = NoLast
     /\ UNCHANGED <<session, posts, newText, newFiles, now, srvPosts, srvLikes, chan,
                    nextLocal, serial, listsVars>>

\* the server answers select("likes") / select("*") for the post, or fails to
LikeSelect(i, ok) ==
  LET c == calls[i]
  IN /\ c.kind = "like" /\ c.pc \in {"read", "reload"}
     /\ ok => ServerHas(srvPosts, c.post)
     /\ calls' = [calls EXCEPT ![i].pc = IF c.pc = "read" THEN "readResp" ELSE "reloadResp",
                               ![i].res = IF ok THEN "ok" ELSE "err",
                               ![i].data = IF ok THEN srvPosts[c.post] ELSE NoRow]
     /\ last' = NoLast
     /\ UNCHANGED <<session, posts, userLikes, newText, newFiles, now, srvPosts, srvLikes,
                    chan, nextLocal, serial, listsVars>>

\* a success path that keeps the optimistic counter
ReconcileKeepOptimistic(cur, c) == cur

\* the reconciling patch: the counter the server reported
Reconcile(cur, c) == IF c.res = "ok" THEN SetLikes(cur, c.post, c.data.likes) ELSE cur

\* success path, after the select: the counter is set to the server's
LikeReadResp(i) ==
  LET c == calls[i]
  IN /\ c.kind = "like" /\ c.pc = "readResp"
     /\ posts' = Reconcile(posts, c)
     /\ calls' = RemoveAt(calls, i)
     /\ last' = Resolved(c, "ok", Null)
     /\ UNCHANGED <<session, userLikes, newText, newFiles, now, srvPosts, srvLikes, chan,
                    nextLocal, serial, listsVars>>

\* the counter's rollback: the post as the server has it, if the reload got it
Reload(cur, c, t) == IF c.res = "ok" THEN ReplacePost(cur, c.post, mapPostRow(c.data, t)) ELSE cur

\* failure path, after the reload: the post is replaced if the reload succeeded; alert
LikeReloadResp(i) ==
  LET c == calls[i]
  IN /\ c.kind = "like" /\ c.pc = "reloadResp"
     /\ posts' = Reload(posts, c, now)
     /\ calls' = RemoveAt(calls, i)
     /\ last' = Resolved(c, "failed", "Failed to toggle like.")
     /\ UNCHANGED <<session, userLikes, newText, newFiles, now, srvPosts, srvLikes, chan,
                    nextLocal, serial, listsVars>>

\* ---- publishPost
PublishNoSession ==
  /\ session = Null
  /\ last' = Resolved(NoCall, "rejected", "Sign in first")
  /\ UNCHANGED <<session, posts, userLikes, newText, newFiles, now, srvPosts, srvLikes, chan,
                 calls, nextLocal, serial, listsVars>>

\* a check that does not trim
NothingToPublishNoTrim(text, files) == text = <<>> /\ files = <<>>

\* !newText.trim() && newFiles.length === 0
NothingToPublish(text, files) == Trim(text) = <<>> /\ files = <<>>

PublishEmpty ==
  /\ session # Null
  /\ NothingToPublish(newText, newFiles)
  /\ last' = Resolved(NoCall, "rejected", "Type something or attach a file")
  /\ UNCHANGED <<session, posts, userLikes, newText, newFiles, now, srvPosts, srvLikes, chan,
                 calls, nextLocal, serial, listsVars>>

OptimisticPost(id, user, text, t) ==
  [ id |-> id, userId |-> user, text |-> text, media |-> <<>>, likes |-> 0, recasts |-> 0,
    comments |-> 0, createdAt |-> t, optimistic |-> TRUE ]

\* publishPost up to its first await
PublishPost ==
  LET localId == LocalBase + nextLocal + 1
  IN /\ HasUser(session)
     /\ ~NothingToPublish(newText, newFiles)
     /\ nextLocal < MaxPublish
     /\ Len(calls) < MaxCalls
     /\ posts' = <<OptimisticPost(localId, session, newText, now)>> \o posts
     /\ newText' = <<>>
     /\ nextLocal' = nextLocal + 1
     /\ calls' = Append(calls, PublishCall(localId, newText, newFiles))
     /\ last' = NoLast
     /\ UNCHANGED <<session, userLikes, newFiles, now, srvPosts, srvLikes, chan, serial,
                    listsVars>>

\* every file is uploaded; the insert is sent
PublishUploadOk(i) ==
  LET c == calls[i]
  IN /\ c.kind = "publish" /\ c.pc = "upload"
     /\ calls' = [calls EXCEPT ![i].pc = "insert", ![i].urls = c.files]
     /\ last' = NoLast
     /\ UNCHANGED <<session, posts, userLikes, newText, newFiles, now, srvPosts, srvLikes,
                    chan, nextLocal, serial, listsVars>>

\* a catch that only alerts
PublishRollbackKeep(cur, localId) == cur

\* catch: the optimistic post is removed
PublishRollback(cur, localId) == SeqFilterIdNot(cur, localId)

\* an upload throws, or the insert returns an error: catch, alert, finally
PublishFail(i) ==
  LET c == calls[i]
  IN /\ c.kind = "publish" /\ c.pc \in {"upload", "insert"}
     /\ posts' = PublishRollback(posts, c.post)
     /\ newFiles' = <<>>
     /\ calls' = RemoveAt(calls, i)
     /\ last' = Resolved(c, "failed", "Failed to publish post.")
     /\ UNCHANGED <<session, userLikes, newText, now, srvPosts, srvLikes, chan, nextLocal,
                    serial, listsVars>>

\* the id the server gives the next row: ids are never reused
FreshId(tbl) == CHOOSE id \in SrvIds : tbl[id] = NoRow /\ \A j \in SrvIds : j < id => tbl[j] # NoRow

\* the server inserts the row and emits INSERT; the response is on its way
PublishInsertExec(i) ==
  LET c == calls[i]
      id == FreshId(srvPosts)
      row == Row(id, Viewer, c.text, c.urls, 0, now)
  IN /\ c.kind = "publish" /\ c.pc = "insert"
     /\ \E j \in SrvIds : srvPosts[j] = NoRow
     /\ srvPosts' = [srvPosts EXCEPT ![id] = row]
     /\ chan' = Emit(chan, [kind |-> "INSERT", row |-> row])
     /\ calls' = [calls EXCEPT ![i].pc = "resp", ![i].res = "ok", ![i].data = row]
     /\ last' = NoLast
     /\ UNCHANGED <<session, posts, userLikes, newText, newFiles, now, srvLikes, nextLocal,
                    serial, listsVars>>

\* a success path that leaves the optimistic post in the list
ReplaceOptimisticNoFilter(cur, localId, serverPost) == <<serverPost>> \o cur

\* setPosts((cur) => [serverPost, ...cur.filter((p) => p.id !== optimisticPost.id)])
ReplaceOptimistic(cur, localId, serverPost) == <<serverPost>> \o SeqFilterIdNot(cur, localId)

\* the insert's response arrives: the optimistic post gives way to the server's
PublishResp(i) ==
  LET c == calls[i]
  IN /\ c.kind = "publish" /\ c.pc = "resp"
     /\ posts' = ReplaceOptimistic(posts, c.post, mapPostRow(c.data, now))
     /\ newFiles' = <<>>
     /\ calls' = RemoveAt(calls, i)
     /\ last' = Resolved(c, "ok", Null)
     /\ UNCHANGED <<session, userLikes, newText, now, srvPosts, srvLikes, chan, nextLocal,
                    serial, listsVars>>

\* what the file input can hand to handleFilesChange
FileLists == UNION {[1 .. n -> Files] : n \in 0 .. MaxFiles}

PostIdsShown == {posts[i].id : i \in 1 .. Len(posts)}

\* other users and the realtime stream
Remote ==
  \/ \E p \in SrvIds : OtherLike(p)
  \/ \E p \in SrvIds : OtherUnlike(p)
  \/ \E p \in SrvIds : RemoteDelete(p)
  \/ Deliver
  \/ Redeliver

\* toggleLike and what runs beside it
Next ==
  \/ Remote
  \/ SignOut
  \/ \E p \in PostIdsShown : ToggleLikeNoSession(p)
  \/ \E p \in PostIdsShown : ToggleLike(p)
  \/ \E i \in 1 .. Len(calls) : LikeOpOk(i)
  \/ \E i \in 1 .. Len(calls) : LikeOpFail(i)
  \/ \E i \in 1 .. Len(calls) : \E ok \in BOOLEAN : LikeSelect(i, ok)
  \/ \E i \in 1 .. Len(calls) : LikeReadResp(i)
  \/ \E i \in 1 .. Len(calls) : LikeReloadResp(i)

Spec == Init /\ [][Next]_vars

\* publishPost and what runs beside it
NextPublish ==
  \/ Remote
  \/ Tick
  \/ SignOut
  \/ \E t \in Texts : SetNewText(t)
  \/ \E fs \in FileLists : HandleFilesChange(fs)
  \/ PublishNoSession
  \/ PublishEmpty
  \/ PublishPost
  \/ \E i \in 1 .. Len(calls) : PublishUploadOk(i)
  \/ \E i \in 1 .. Len(calls) : PublishFail(i)
  \/ \E i \in 1 .. Len(calls) : PublishInsertExec(i)
  \/ \E i \in 1 .. Len(calls) : PublishResp(i)

SpecPublish == Init /\ [][NextPublish]_vars

\* =============================================================== part_001
\* the client that keeps likedPosts / recastedPosts arrays; its handlers read posts,
\* likedPosts and recastedPosts from the render they were created in
ListsIds == {1, 2}          \* rows of the posts table at start-up

InitListsLiked == {1}       \* the viewer's post_likes rows at start-up

\* a row of posts; the client keeps the rows as they come
ListsPost(id, likes) ==
  [ id |-> id, author_id |-> Author, text |-> <<"a">>, media_urls |-> <<>>,
    likes |-> likes, recasts |-> 0, comments |-> 0, created_at |-> 0 ]

InitListsRows == [id \in ListsIds |-> ListsPost(id, IF id \in InitListsLiked THEN 1 ELSE 0)]

\* fetchData: posts, then the viewer's post_likes and post_recasts rows
InitLists ==
  /\ NoCompose
  /\ NoFollow
  /\ session = Viewer
  /\ srvPosts = InitListsRows
  /\ srvLikes = InitListsLiked
  /\ srvRecasts = {}
  /\ posts = <<InitListsRows[1], InitListsRows[2]>>
  /\ likedPosts = <<1>>
  /\ recastedPosts = <<>>
  /\ userLikes = {}
  /\ newText = <<>>
  /\ newFiles = <<>>
  /\ now = 0
  /\ chan = <<>>
  /\ calls = <<>>
  /\ nextLocal = 0
  /\ serial = {}
  /\ last = NoLast
  /\ run = "serial"
  /\ ntoggles = 0
  /\ NoStories
  /\ NoProfile
  /\ sorting = NoSort
  /\ activeTab = "forYou"
  /\ search = <<>>
  /\ followingIds = {}
  /\ runs = <<>>

\* likedPosts.includes(postId)
Includes(s, id) == \E i \in 1 .. Len(s) : s[i] = id

RECURSIVE Without(_, _)
\* likedPosts.filter((id) => id !== postId)
Without(s, id) ==
  IF s = <<>> THEN <<>>
  ELSE IF Head(s) = id THEN Without(Tail(s), id)
       ELSE <<Head(s)>> \o Without(Tail(s), id)

\* an invocation of toggleLike / toggleRecast with the posts and the flags of its render
ListsCall(act, p, already, snapPosts, snapFlags, seq) ==
  [LikeCall(p, already, 0, TRUE, seq) EXCEPT
     !.kind = act, !.pc = "flag", !.snapPosts = snapPosts, !.snapFlags = snapFlags]

\* history: "serial" while no two invocations were in flight together and no remote
\* call failed, "apart" once invocations on different posts were, "mixed" once two
\* invocations on one post were or a remote call failed
RunAfterDispatch(r, cs, p) ==
  IF cs = <<>> THEN r
  ELSE IF \E i \in 1 .. Len(cs) : cs[i].post = p THEN "mixed"
  ELSE IF r = "serial" THEN "apart"
  ELSE r

\* toggle(postId, act) -> toggleLike / toggleRecast up to the first await: the flag is
\* looked up in the render's array and the delete or the insert is sent
ListsToggle(p, act) ==
  LET flags == IF act = "like" THEN likedPosts ELSE recastedPosts
  IN /\ HasId(posts, p)
     /\ Len(calls) < MaxCalls
     /\ ntoggles < MaxToggles
     /\ ntoggles' = ntoggles + 1
     /\ calls' = Append(calls, ListsCall(act, p, Includes(flags, p), posts, flags, ntoggles + 1))
     /\ run' = RunAfterDispatch(run, calls, p)
     /\ last' = NoLast
     /\ UNCHANGED <<session, posts, userLikes, newText, newFiles, now, srvPosts, srvLikes,
                    chan, nextLocal, serial, likedPosts, recastedPosts, srvRecasts, rankVars, screenVars>>

\* setLikedPosts / setRecastedPosts: the render's array without or with the post
ListsFlags(c) ==
  IF c.already THEN Without(c.snapFlags, c.post) ELSE Append(c.snapFlags, c.post)

\* the viewer's rows after delete().match(...) / insert(...)
ListsRowsAfter(rows, c) == IF c.already THEN rows \ {c.post} ELSE rows \cup {c.post}

\* the first await returns, with or without an error that nobody reads: the flag array
\* is set and, when the render has the post, the update of its counter is sent
ListsFlagDone(i, ok) ==
  LET c == calls[i]
  IN /\ c.pc = "flag"
     /\ IF c.kind = "like"
        THEN /\ likedPosts' = ListsFlags(c)
             /\ srvLikes' = IF ok THEN ListsRowsAfter(srvLikes, c) ELSE srvLikes
             /\ UNCHANGED <<recastedPosts, srvRecasts>>
        ELSE /\ recastedPosts' = ListsFlags(c)
             /\ srvRecasts' = IF ok THEN ListsRowsAfter(srvRecasts, c) ELSE srvRecasts
             /\ UNCHANGED <<likedPosts, srvLikes>>
     /\ IF HasId(c.snapPosts, c.post)
        THEN calls' = [calls EXCEPT ![i].pc = "counter"] /\ last' = NoLast
        ELSE calls' = RemoveAt(calls, i) /\ last' = Resolved(c, "done", Null)
     /\ run' = IF ok THEN run ELSE "mixed"
     /\ UNCHANGED <<session, posts, userLikes, newText, newFiles, now, srvPosts, chan,
                    nextLocal, serial, ntoggles, rankVars, screenVars>>

\* cur.map((p) => (p.id === id ? { ...p, recasts: p.recasts + d } : p))
AddRecasts(cur, id, d) ==
  [i \in 1 .. Len(cur) |-> IF cur[i].id = id THEN [cur[i] EXCEPT !.recasts = @ + d] ELSE cur[i]]

\* a toggleRecast that moves the likes counter
ListsPatchLikesOnly(c) == AddLikes(c.snapPosts, c.post, LikeDelta(c.already))

\* setPosts(posts.map(...)): the render's posts with the toggled post's counter moved
ListsPatch(c) ==
  IF c.kind = "like" THEN AddLikes(c.snapPosts, c.post, LikeDelta(c.already))
  ELSE AddRecasts(c.snapPosts, c.post, LikeDelta(c.already))

\* update({ likes: postToUpdate.likes + d }).eq("id", postId)
ListsUpdate(tbl, c) ==
  LET postToUpdate == FindId(c.snapPosts, c.post)
  IN IF c.post \notin DOMAIN tbl THEN tbl
     ELSE IF c.kind = "like"
          THEN [tbl EXCEPT ![c.post].likes = postToUpdate.likes + LikeDelta(c.already)]
          ELSE [tbl EXCEPT ![c.post].recasts = postToUpdate.recasts + LikeDelta(c.already)]

\* the second await returns: the posts list is set from the render's posts
ListsCounterDone(i, ok) ==
  LET c == calls[i]
  IN /\ c.pc = "counter"
     /\ posts' = ListsPatch(c)
     /\ srvPosts' = IF ok THEN ListsUpdate(srvPosts, c) ELSE srvPosts
     /\ calls' = RemoveAt(calls, i)
     /\ run' = IF ok THEN run ELSE "mixed"
     /\ last' = Resolved(c, "done", Null)
     /\ UNCHANGED <<session, userLikes, newText, newFiles, now, srvLikes, chan, nextLocal,
                    serial, likedPosts, recastedPosts, srvRecasts, ntoggles, rankVars, screenVars>>

NextLists ==
  \/ \E p \in PostIdsShown : \E act \in {"like", "recast"} : ListsToggle(p, act)
  \/ \E i \in 1 .. Len(calls) : \E ok \in BOOLEAN : ListsFlagDone(i, ok)
  \/ \E i \in 1 .. Len(calls) : \E ok \in BOOLEAN : ListsCounterDone(i, ok)

SpecLists == InitLists /\ [][NextLists]_vars

\* ===================================================== part_001: the ranking
MaxRankPosts == 2    \* posts in the list the ranking runs on
MaxRankTicks == 1    \* clock advances per behaviour

HourMs  == 3600000   \* ageH = (now - created_at) / 3_600_000
MaxBonus == 12       \* clamp(12 - ageH, 0, 12)
TickMs  == 12 * HourMs       \* one clock advance
Stranger == "u3"             \* a user without a profiles row

RankIds == 1 .. MaxRankPosts

\* a posts row with the columns the ranking reads
RankPost(id, author, text, likes, created) ==
  [ListsPost(id, likes) EXCEPT !.author_id = author, !.text = text, !.created_at = created]

RankPosts(id) ==
  {RankPost(id, a, txt, l, c) :
     a \in {Viewer, Author, Stranger}, txt \in {<<"a">>, <<"A", "b">>},
     l \in 0 .. 1, c \in {0, HourMs \div 2}}

\* the posts lists: no two entries share an id, any order
RankStores ==
  UNION {{ps \in [1 .. n -> UNION {RankPosts(id) : id \in RankIds}] :
            \A i, j \in 1 .. n : i # j => ps[i].id # ps[j].id} : n \in 0 .. MaxRankPosts}

RankSearches == {<<>>, <<"a">>, <<" ", "B">>}

\* usersMap[id]?.name
NameOf(u) ==
  CASE u = Viewer -> <<"Y">>
    [] u = Author -> <<"B", "o">>
    [] OTHER -> NullSeq

Max(a, b) == IF a > b THEN a ELSE b

\* a clamp that keeps the upper bound only
clampUpper(n, lo, hi) == Min(n, hi)

\* clamp(n, min, max) = Math.min(Math.max(n, min), max)
clamp(n, lo, hi) == Min(Max(n, lo), hi)

\* p.likes * 2 + p.recasts * 3 + p.comments
engagement(p) == p.likes * 2 + p.recasts * 3 + p.comments

\* score(p) when Date.now() = t, in units of 1 / 3_600_000: the division by
\* 3_600_000 is carried on the other terms, which keeps the values integers
score(p, t) ==
  engagement(p) * HourMs + clamp(MaxBonus * HourMs - (t - p.created_at), 0, MaxBonus * HourMs)

\* Array.prototype.sort with the comparator key(b) - key(a): descending by key, entries
\* with equal keys in the order they had (the sort is stable)
SortDesc(items, keys) ==
  LET n == Len(items)
      Before(j, i) == keys[j] > keys[i] \/ (keys[j] = keys[i] /\ j < i)
      Pos(i) == 1 + Cardinality({j \in 1 .. n : Before(j, i)})
  IN [k \in 1 .. n |-> items[CHOOSE i \in 1 .. n : Pos(i) = k]]

\* String.prototype.toLowerCase on one character
LowerChar(c) ==
  CASE c = "A" -> "a"
    [] c = "B" -> "b"
    [] c = "Y" -> "y"
    [] OTHER -> c

ToLowerCase(t) == [i \in 1 .. Len(t) |-> LowerChar(t[i])]

\* String.prototype.includes
StrIncludes(t, q) == \E i \in 0 .. Len(t) - Len(q) : SubSeq(t, i + 1, i + Len(q)) = q

\* a scope test that forgets the viewer's own posts
InScopeFollowedOnly(p, f) == p.author_id \in f

\* fset.has(p.author_id) || p.author_id === me.id
InScope(p, f) == p.author_id \in f \/ p.author_id = Viewer

\* a search that looks at the post text only
MatchesTextOnly(p, q) == StrIncludes(ToLowerCase(p.text), q)

\* p.text.toLowerCase().includes(q) || usersMap[p.author_id]?.name.toLowerCase().includes(q)
Matches(p, q) ==
  \/ StrIncludes(ToLowerCase(p.text), q)
  \/ (NameOf(p.author_id) # NullSeq /\ StrIncludes(ToLowerCase(NameOf(p.author_id)), q))

\* the body of the filtered memo on items, with Date.now() = t in every comparison
Pipeline(items, tab, srch, f, t) ==
  LET scoped == IF tab = "following" THEN SelectSeq(items, LAMBDA p : InScope(p, f)) ELSE items
      byTime == IF tab = "latest"
                THEN SortDesc(scoped, [i \in 1 .. Len(scoped) |-> scoped[i].created_at])
                ELSE scoped
      byScore == IF tab = "forYou"
                 THEN SortDesc(byTime, [i \in 1 .. Len(byTime) |-> score(byTime[i], t)])
                 ELSE byTime
      q == ToLowerCase(Trim(srch))
  IN IF q # <<>> THEN SelectSeq(byScore, LAMBDA p : Matches(p, q)) ELSE byScore

\* an array and whether it is the array the posts state holds
\* items = posts: the state's own array
SpreadShared(ps) == [arr |-> ps, shared |-> TRUE]

\* [...posts]: a new array with the same entries
Spread(ps) == [arr |-> ps, shared |-> FALSE]

\* what the array of the posts state holds after the body of the memo ran: filter
\* returns a new array, sort orders the array it is called on in place
StoreAfter(ps, tab, f, t) ==
  LET items == Spread(ps)
      scoped == IF tab = "following"
                THEN [arr |-> SelectSeq(items.arr, LAMBDA p : InScope(p, f)), shared |-> FALSE]
                ELSE items
      byTime == IF tab = "latest"
                THEN SortDesc(scoped.arr, [i \in 1 .. Len(scoped.arr) |-> scoped.arr[i].created_at])
                ELSE scoped.arr
      byScore == IF tab = "forYou"
                 THEN SortDesc(byTime, [i \in 1 .. Len(byTime) |-> score(byTime[i], t)])
                 ELSE byTime
  IN IF scoped.shared THEN byScore ELSE ps

\* a memo that reads the tab of the render before
filteredStaleTab(ps, tab, srch, f, t) == Pipeline(ps, activeTab, srch, f, t)

\* filtered: let items = [...posts], then the body
filtered(ps, tab, srch, f, t) == Pipeline(Spread(ps).arr, tab, srch, f, t)

\* one run of the memo: what it read and what it returned
RankRun(ps, tab, srch, f, t) ==
  [ posts |-> ps, tab |-> tab, search |-> srch, following |-> f, now |-> t,
    out |-> filtered(ps, tab, srch, f, t) ]

\* history: the last two runs
RunsAfter(rs, r) == IF rs = <<>> THEN <<r>> ELSE <<rs[Len(rs)], r>>

\* fetchData has loaded posts and followingIds; FeedScreen has rendered once
InitRank ==
  /\ NoCompose
  /\ NoFollow
  /\ session = Viewer
  /\ followingIds \in {{}, {Author}}
  /\ activeTab = "forYou"
  /\ search = <<>>
  /\ now = HourMs
  /\ \E ps \in RankStores : posts = StoreAfter(ps, activeTab, followingIds, now)
  /\ runs = <<RankRun(posts, activeTab, search, followingIds, now)>>
  /\ srvPosts = InitListsRows
  /\ srvLikes = {}
  /\ srvRecasts = {}
  /\ likedPosts = <<>>
  /\ recastedPosts = <<>>
  /\ userLikes = {}
  /\ newText = <<>>
  /\ newFiles = <<>>
  /\ chan = <<>>
  /\ calls = <<>>
  /\ nextLocal = 0
  /\ serial = {}
  /\ last = NoLast
  /\ run = "serial"
  /\ ntoggles = 0
  /\ NoStories
  /\ NoProfile
  /\ sorting = NoSort

\* setActiveTab(t): a dependency of the memo changed, it runs again
SetActiveTab(tab) ==
  /\ tab # activeTab
  /\ activeTab' = tab
  /\ runs' = RunsAfter(runs, RankRun(posts, tab, search, followingIds, now))
  /\ posts' = StoreAfter(posts, tab, followingIds, now)
  /\ UNCHANGED <<session, userLikes, newText, newFiles, now, srvPosts, srvLikes, chan,
                 calls, nextLocal, serial, last, likedPosts, recastedPosts, srvRecasts, run,
                 ntoggles, search, followingIds, screenVars>>

\* onSearch = setSearch
SetSearch(srch) ==
  /\ srch # search
  /\ search' = srch
  /\ runs' = RunsAfter(runs, RankRun(posts, activeTab, srch, followingIds, now))
  /\ posts' = StoreAfter(posts, activeTab, followingIds, now)
  /\ UNCHANGED <<session, userLikes, newText, newFiles, now, srvPosts, srvLikes, chan,
                 calls, nextLocal, serial, last, likedPosts, recastedPosts, srvRecasts, run,
                 ntoggles, activeTab, followingIds, screenVars>>

\* openProfile, then openFeed: FeedScreen is mounted again and its memo runs on the
\* state as it is
Remount ==
  /\ runs' = RunsAfter(runs, RankRun(posts, activeTab, search, followingIds, now))
  /\ posts' = StoreAfter(posts, activeTab, followingIds, now)
  /\ UNCHANGED <<session, userLikes, newText, newFiles, now, srvPosts, srvLikes, chan,
                 calls, nextLocal, serial, last, likedPosts, recastedPosts, srvRecasts, run,
                 ntoggles, activeTab, search, followingIds, screenVars>>

\* time passes; no dependency of the memo changes
RankTick ==
  /\ now + TickMs <= HourMs + MaxRankTicks * TickMs
  /\ now' = now + TickMs
  /\ UNCHANGED <<session, posts, userLikes, newText, newFiles, srvPosts, srvLikes, chan,
                 calls, nextLocal, serial, last, listsVars>>

NextRank ==
  \/ \E tab \in {"forYou", "following", "latest"} : SetActiveTab(tab)
  \/ \E srch \in RankSearches : SetSearch(srch)
  \/ Remount
  \/ RankTick

SpecRank == InitRank /\ [][NextRank]_vars

\* ======================================================== claims: toggleLike
LikeInFlight(p) == \E i \in 1 .. Len(calls) : calls[i].kind = "like" /\ calls[i].post = p

Liked(p) == p \in userLikes

\* the last step resolved a like toggle that nothing else touched
LastAloneLike(outcome) ==
  /\ last.outcome = outcome
  /\ last.call.kind = "like"
  /\ last.call.touch = "none"
  /\ HasId(posts, last.call.post)

\* C1: when the remote operation of a like toggle on P fails and nothing else touched
\* P meanwhile, P's counter and the viewer's flag are back at their values from
\* before the toggle, and a failure notification is emitted.
C1_RollbackExact ==
  LastAloneLike("failed") =>
    /\ LikesOf(posts, last.call.post) = last.call.likes0
    /\ Liked(last.call.post) = last.call.already
    /\ last.alert = "Failed to toggle like."

\* C2: when a realtime event for P was merged while a like toggle on P was pending and
\* the toggle then succeeds, P's counter is the value the server reported to the
\* toggle's select.
C2_AuthoritativeCounter ==
  ( /\ last.outcome = "ok"
    /\ last.call.kind = "like"
    /\ last.call.touch = "event"
    /\ last.call.res = "ok"
    /\ HasId(posts, last.call.post) )
  => LikesOf(posts, last.call.post) = last.call.data.likes

\* C2's case: an UPDATE carrying another user's like was merged under the pending
\* toggle, and the resolved toggle left the server's 2 in the store.
C2_Witness ==
  /\ last.outcome = "ok"
  /\ last.call.kind = "like"
  /\ last.call.touch = "event"
  /\ last.call.res = "ok"
  /\ ~last.call.already
  /\ last.call.data.likes = 2
  /\ HasId(posts, last.call.post)
  /\ LikesOf(posts, last.call.post) = 2

\* C3: toggles on one (viewer, post) key are serialized in dispatch order: once all of
\* them have resolved, the viewer's flag is the flag that running them one after
\* the other leaves (each success flips it, each failure leaves it).
C3_SerializedToggles ==
  session # Null =>
    \A p \in PostIdsShown : ~LikeInFlight(p) => (Liked(p) <=> SerialFlag(serial, p))

\* C4: every post's likes, recasts and comments counters are >= 0 in every state.
C4_CountersNonNegative ==
  \A i \in 1 .. Len(posts) :
    posts[i].likes >= 0 /\ posts[i].recasts >= 0 /\ posts[i].comments >= 0

\* flag and counter of p have both left (flag0, likes0), or neither has
BothOrNeither(p, flag0, likes0) == (Liked(p) # flag0) <=> (LikesOf(posts, p) # likes0)

\* C9: no reader sees a half-applied patch: while a like toggle that is alone on P is in
\* flight, and after it has resolved, P's flag and counter have changed together.
C9_NoHalfAppliedPatch ==
  /\ \A i \in 1 .. Len(calls) :
       (calls[i].kind = "like" /\ calls[i].touch = "none" /\ HasId(posts, calls[i].post))
         => BothOrNeither(calls[i].post, calls[i].already, calls[i].likes0)
  /\ (LastAloneLike("failed") \/ LastAloneLike("ok"))
       => BothOrNeither(last.call.post, last.call.already, last.call.likes0)

\* ======================================================= claims: publishPost
\* realtime events as inputs of the merge
RowInputs ==
  {Row(id, Author, <<"a">>, <<>>, l, at) : id \in SrvIds, l \in 0 .. 1, at \in {NullInt, 0}}

EventInputs == {[kind |-> k, row |-> r] : k \in {"INSERT", "UPDATE", "DELETE"}, r \in RowInputs}

\* C5: merging an event a second time, then or later, gives the posts list that
\* merging it once gave.
C5_IdempotentMerge ==
  \A e \in EventInputs : \A t \in now .. MaxTime :
    Merge(Merge(posts, e, now), e, t) = Merge(posts, e, now)

\* C6: the posts list never holds two entries with one id.
C6_UniqueIds ==
  \A i, j \in 1 .. Len(posts) : i # j => posts[i].id # posts[j].id

\* C7: when publishPost's insert has succeeded, no entry with the temporary id is
\* left and the post the server returned is in the list.
C7_TempIdReconciled ==
  (last.outcome = "ok" /\ last.call.kind = "publish")
    => /\ ~HasId(posts, last.call.post)
       /\ HasId(posts, last.call.data.id)
       /\ Head(posts) = mapPostRow(last.call.data, now)

\* C7's case: a publish resolved with the server's row
C7_Witness ==
  /\ last.outcome = "ok"
  /\ last.call.kind = "publish"
  /\ last.call.post > LocalBase
  /\ ServerHas(srvPosts, last.call.data.id)
  /\ HasId(posts, last.call.data.id)
  /\ ~HasId(posts, last.call.post)

\* ============================================================ claims: part_001
\* the posts in a flag array
FlagSet(s) == {s[i] : i \in 1 .. Len(s)}

\* C8: toggles on different posts that are in flight together do not disturb each
\* other: once all have resolved, every remote call having succeeded, the flag arrays
\* hold the rows the server holds and every post is as the server has it.
C8_IndependentEntities ==
  (calls = <<>> /\ run # "mixed") =>
    /\ FlagSet(likedPosts) = srvLikes
    /\ FlagSet(recastedPosts) = srvRecasts
    /\ \A i \in 1 .. Len(posts) : posts[i] = srvPosts[posts[i].id]

\* what one flag adds to its counter
Held(flags, p) == IF p \in flags THEN 1 ELSE 0

\* C10: a like toggle moves only likes and a recast toggle only recasts, and the
\* toggle-off takes back what the toggle-on added: with toggles run one after the
\* other and every remote call succeeding, each counter is its first value plus what
\* the viewer's flag holds now minus what it held at first.
C10_ExactCounter ==
  (calls = <<>> /\ run = "serial") =>
    \A i \in 1 .. Len(posts) :
      LET p == posts[i].id
      IN /\ posts[i].likes = InitListsRows[p].likes + Held(FlagSet(likedPosts), p)
                               - Held(InitListsLiked, p)
         /\ posts[i].recasts = InitListsRows[p].recasts + Held(FlagSet(recastedPosts), p)
         /\ posts[i].comments = InitListsRows[p].comments

\* C10's case: a flag was toggled on and off again (or off and on) and every flag and
\* counter is back at its first value
C10_Witness ==
  /\ calls = <<>>
  /\ run = "serial"
  /\ ntoggles = 2
  /\ last.outcome = "done"
  /\ likedPosts = <<1>>
  /\ recastedPosts = <<>>
  /\ posts = <<InitListsRows[1], InitListsRows[2]>>

\* ================================================ part_002: the realtime merge
\* a payload that carries the id and the likes column only
PartialRow(id, likes) ==
  [ id |-> id, user_id |-> Null, text |-> NullSeq, media |-> NullSeq, likes |-> likes,
    recasts |-> NullInt, comments |-> NullInt, created_at |-> NullInt ]

\* payload.new / payload.old of the events the channel hands to the handlers
MergeRows ==
  {Row(id, Author, txt, <<>>, l, at) :
     id \in SrvIds, txt \in {<<"a">>, <<"b">>}, l \in 0 .. MaxLikes, at \in {NullInt, 0}}
  \cup {PartialRow(id, l) : id \in SrvIds, l \in 0 .. MaxLikes}

MergeEvents == {[kind |-> k, row |-> r] : k \in {"INSERT", "UPDATE", "DELETE"}, r \in MergeRows}

\* the channel receives an event; the stream is unordered and at-least-once, so any
\* event may follow any other
Receive(e) ==
  /\ Len(chan) < MaxChan
  /\ chan' = Append(chan, e)
  /\ last' = NoLast
  /\ UNCHANGED <<session, posts, userLikes, newText, newFiles, now, srvPosts, srvLikes,
                 calls, nextLocal, serial, listsVars>>

NextMerge ==
  \/ \E e \in MergeEvents : Receive(e)
  \/ Deliver
  \/ Redeliver
  \/ Tick

SpecMerge == Init /\ [][NextMerge]_vars

\* ============================================== part_002: a feed at its cap
FillBase == 1000   \* ids of the posts that filled the feed

\* the posts that init() loaded and INSERT events added since: one short of the cap
FullFeed ==
  <<mapPostRow(InitRows[1], 0)>>
    \o [i \in 1 .. PostsCap - 2 |-> mapPostRow(Row(FillBase + i, Author, <<"a">>, <<>>, 0, 0), 0)]

\* the client has run for a while: the feed holds PostsCap - 1 posts
InitCap ==
  /\ NoCompose
  /\ NoFollow
  /\ session = Viewer
  /\ srvPosts = InitRows
  /\ srvLikes = InitLiked
  /\ posts = FullFeed
  /\ userLikes = InitLiked
  /\ newText = <<>>
  /\ newFiles = <<>>
  /\ now = 0
  /\ chan = <<>>
  /\ calls = <<>>
  /\ nextLocal = 0
  /\ serial = {}
  /\ last = NoLast
  /\ likedPosts = <<>>
  /\ recastedPosts = <<>>
  /\ srvRecasts = {}
  /\ run = "serial"
  /\ ntoggles = 0
  /\ NoStories
  /\ NoProfile
  /\ sorting = NoSort
  /\ activeTab = "forYou"
  /\ search = <<>>
  /\ followingIds = {}
  /\ runs = <<>>

\* INSERT events with full rows
CapEvents == {[kind |-> "INSERT", row |-> Row(id, Author, <<"a">>, <<>>, 0, 0)] : id \in SrvIds}

NextCap ==
  \/ \E e \in CapEvents : Receive(e)
  \/ Deliver
  \/ \E t \in Texts : SetNewText(t)
  \/ PublishPost
  \/ \E i \in 1 .. Len(calls) : PublishInsertExec(i)
  \/ \E i \in 1 .. Len(calls) : PublishFail(i)
  \/ \E i \in 1 .. Len(calls) : PublishResp(i)

SpecCap == InitCap /\ [][NextCap]_vars

\* ====================================================== claims: realtime merge
\* a step in which a handler ran on the oldest event of the stream
MergeStep == chan # <<>> /\ now' = now /\ (chan' = chan \/ chan' = Tail(chan))

\* C13: an INSERT event for an id the list already holds is treated as an update: the
\* list keeps its length and the entry with that id takes the payload's values.
C13_InsertAsUpdate ==
  [][(MergeStep /\ Head(chan).kind = "INSERT" /\ HasId(posts, Head(chan).row.id)) =>
       /\ Len(posts') = Len(posts)
       /\ FindId(posts', Head(chan).row.id) = mapPostRow(Head(chan).row, now)]_vars

\* C14: after a DELETE event for id X is merged no entry has id X, and when X was
\* absent the list is unchanged.
C14_DeleteRemoves ==
  [][(MergeStep /\ Head(chan).kind = "DELETE") =>
       /\ ~HasId(posts', Head(chan).row.id)
       /\ ~HasId(posts, Head(chan).row.id) => posts' = posts]_vars

\* C14's case: the one post of the list is gone, which only a merged DELETE does
C14_Witness == posts = <<>> /\ chan = <<>> /\ calls = <<>> /\ nextLocal = 0

\* C15: an UPDATE is merged field by field: what the payload does not carry (text,
\* media, recasts, comments, created_at) stays as the list had it.
C15_FieldLevelMerge ==
  [][(MergeStep /\ Head(chan).kind = "UPDATE" /\ HasId(posts, Head(chan).row.id)) =>
       LET row == Head(chan).row
           old == FindId(posts, row.id)
           new == FindId(posts', row.id)
       IN /\ row.text = NullSeq => new.text = old.text
          /\ row.media = NullSeq => new.media = old.media
          /\ row.recasts = NullInt => new.recasts = old.recasts
          /\ row.comments = NullInt => new.comments = old.comments
          /\ row.created_at = NullInt => new.createdAt = old.createdAt]_vars

\* ===================================================== claims: validation
\* a step in which publishPost got past its checks: an invocation started
PublishStarted == nextLocal' # nextLocal

\* C11: while the composer holds a text longer than TextLimit, no publishPost gets
\* past validation: no optimistic post is added and no remote call is started.
C11_OverLimitRejected ==
  [][Len(newText) > TextLimit => (~PublishStarted /\ Len(calls') <= Len(calls))]_vars

\* every character is white space
WhitespaceOnly(t) == \A i \in 1 .. Len(t) : t[i] = " "

\* C12: with whitespace-only text and no files, no publishPost gets past validation,
\* and the rejected invocation leaves posts, composer, server and stream as they are.
C12_EmptyRejected ==
  [][(WhitespaceOnly(newText) /\ newFiles = <<>>) =>
       /\ ~PublishStarted
       /\ Len(calls') <= Len(calls)
       /\ last'.alert = "Type something or attach a file" =>
            UNCHANGED <<posts, newText, newFiles, srvPosts, chan, calls>>]_vars

\* C12's case: publishPost was invoked on a whitespace-only text and rejected
C12_Witness ==
  /\ last.alert = "Type something or attach a file"
  /\ newText = <<" ">>
  /\ newFiles = <<>>
  /\ calls = <<>>
  /\ nextLocal = 0

\* ===================================================== the forYou sort, step by step
MaxSortTicks == 2   \* milliseconds the clock advances while sorts run

\* items with the entries at k and k + 1 exchanged
SwapAt(items, k) == [items EXCEPT ![k] = items[k + 1], ![k + 1] = items[k]]

\* the sort goes on to the entry after i, or has placed them all
SortAdvance(st, items) ==
  IF st.i = Len(items) THEN [st EXCEPT !.pc = "sorted", !.items = items]
  ELSE [st EXCEPT !.pc = "scoreB", !.items = items, !.i = st.i + 1, !.j = st.i]

\* FeedScreen is about to render with the posts loaded
InitSort ==
  /\ NoCompose
  /\ NoFollow
  /\ session = Viewer
  /\ posts \in RankStores
  /\ followingIds \in {{}, {Author}}
  /\ activeTab = "forYou"
  /\ search = <<>>
  /\ now = HourMs
  /\ runs = <<>>
  /\ srvPosts = InitListsRows
  /\ srvLikes = {}
  /\ srvRecasts = {}
  /\ likedPosts = <<>>
  /\ recastedPosts = <<>>
  /\ userLikes = {}
  /\ newText = <<>>
  /\ newFiles = <<>>
  /\ chan = <<>>
  /\ calls = <<>>
  /\ nextLocal = 0
  /\ serial = {}
  /\ last = NoLast
  /\ run = "serial"
  /\ ntoggles = 0
  /\ NoStories
  /\ NoProfile
  /\ sorting = NoSort

\* the memo runs in tab forYou: items = [...posts]; items.sort(...) starts. The sort is
\* an insertion sort: the entry at i moves left while comparator(entry before, it) > 0
StartSort ==
  /\ sorting.pc = "idle"
  /\ activeTab = "forYou"
  /\ sorting' = IF Len(posts) < 2
                THEN [NoSort EXCEPT !.pc = "sorted", !.items = Spread(posts).arr]
                ELSE [NoSort EXCEPT !.pc = "scoreB", !.items = Spread(posts).arr,
                                    !.i = 2, !.j = 1]
  /\ UNCHANGED <<session, posts, userLikes, newText, newFiles, now, srvPosts, srvLikes, chan,
                 calls, nextLocal, serial, last, likedPosts, recastedPosts, srvRecasts, run,
                 ntoggles, rankVars, storyVars, profileVars, composeVars,
                 followVars>>

\* (a, b) => score(b) - score(a): score(b) is evaluated, reading the clock
ScoreB ==
  /\ sorting.pc = "scoreB"
  /\ sorting' = [sorting EXCEPT !.pc = "scoreA",
                                !.sb = score(sorting.items[sorting.j + 1], now),
                                !.reads = @ \cup {now}]
  /\ UNCHANGED <<session, posts, userLikes, newText, newFiles, now, srvPosts, srvLikes, chan,
                 calls, nextLocal, serial, last, likedPosts, recastedPosts, srvRecasts, run,
                 ntoggles, rankVars, storyVars, profileVars, composeVars,
                 followVars>>

\* score(a) is evaluated, reading the clock again; a positive difference moves b
\* before a
ScoreA ==
  /\ sorting.pc = "scoreA"
  /\ LET sa == score(sorting.items[sorting.j], now)
         st == [sorting EXCEPT !.reads = @ \cup {now}]
     IN sorting' =
          IF sorting.sb - sa > 0
          THEN IF sorting.j > 1
               THEN [st EXCEPT !.pc = "scoreB", !.items = SwapAt(sorting.items, sorting.j),
                               !.j = sorting.j - 1]
               ELSE SortAdvance(st, SwapAt(sorting.items, sorting.j))
          ELSE SortAdvance(st, sorting.items)
  /\ UNCHANGED <<session, posts, userLikes, newText, newFiles, now, srvPosts, srvLikes, chan,
                 calls, nextLocal, serial, last, likedPosts, recastedPosts, srvRecasts, run,
                 ntoggles, rankVars, storyVars, profileVars, composeVars,
                 followVars>>

\* the sort has returned: the search filter runs and the memo has its value
FinishSort ==
  /\ sorting.pc = "sorted"
  /\ LET q == ToLowerCase(Trim(search))
         out == IF q # <<>> THEN SelectSeq(sorting.items, LAMBDA p : Matches(p, q))
                ELSE sorting.items
     IN runs' = RunsAfter(runs, [posts |-> posts, tab |-> activeTab, search |-> search,
                                 following |-> followingIds, now |-> now, out |-> out])
  /\ sorting' = [sorting EXCEPT !.pc = "idle"]
  /\ UNCHANGED <<session, posts, userLikes, newText, newFiles, now, srvPosts, srvLikes, chan,
                 calls, nextLocal, serial, last, likedPosts, recastedPosts, srvRecasts, run,
                 ntoggles, activeTab, search, followingIds, storyVars, profileVars,
                 composeVars, followVars>>

\* a millisecond passes
SortClock ==
  /\ now < HourMs + MaxSortTicks
  /\ now' = now + 1
  /\ UNCHANGED <<session, posts, userLikes, newText, newFiles, srvPosts, srvLikes, chan,
                 calls, nextLocal, serial, last, listsVars>>

NextSort ==
  \/ StartSort
  \/ ScoreB
  \/ ScoreA
  \/ FinishSort
  \/ SortClock

SpecSort == InitSort /\ [][NextSort]_vars

\* ================================================================== stories
MaxStories    == 2   \* stories in the list
MaxStoryTicks == 2   \* refresh periods the clock runs through

SecMs    == 1000       \* one second of Date.now()
Period   == 60000      \* setInterval(..., 60_000)
StoryTtl == 86400000   \* expires_at = Date.now() + 86400000
MountAt  == SecMs      \* Date.now() when App mounts and sets its intervals
SelfId   == 0          \* id: "self"

\* the clients: part_000 (AppState), part_001 (stories state), App.tsx (allStories)
Variants == {"part_000", "part_001", "App"}

\* the feed: posts, flags, invocations, ranking
coreVars == <<session, posts, userLikes, newText, newFiles, srvPosts, srvLikes, chan, calls,
              nextLocal, serial, last, likedPosts, recastedPosts, srvRecasts, run, ntoggles,
              rankVars, sorting, composeVars, followVars>>

feedVars == <<coreVars, profileVars>>

\* Story; part_000 and App.tsx name the fields userId and expiresAt
Story(id, author, created, expires) ==
  [id |-> id, author_id |-> author, created_at |-> created, expires_at |-> expires]

\* expires_at?: string is optional in part_001 only
Expiries(v) ==
  {MountAt - SecMs, MountAt, MountAt + SecMs, MountAt + Period}
    \cup (IF v = "part_001" THEN {NullInt} ELSE {})

StoriesOf(v, id) == {Story(id, a, 0, e) : a \in {Viewer, Author}, e \in Expiries(v)}

\* the stories the client has loaded: no two share an id, any order
StoryStores(v) ==
  UNION {{ss \in [1 .. n -> UNION {StoriesOf(v, id) : id \in 1 .. MaxStories}] :
            \A i, j \in 1 .. n : i # j => ss[i].id # ss[j].id} : n \in 0 .. MaxStories}

\* the tile { id: "self", ... } that part_000 and part_001 put before the stories
SelfTile(v, t) ==
  IF v = "part_000" THEN Story(SelfId, Viewer, t, t + StoryTtl)
  ELSE Story(SelfId, Viewer, NullInt, NullInt)

\* new Date(st.expiresAt).getTime() > Date.now()
\* a filter that keeps the story whose expiry is the clock value
NotExpiredInclusive(s, t) == s.expires_at >= t

\* new Date(st.expiresAt).getTime() > Date.now()
NotExpired(s, t) == s.expires_at > t

\* s.expires_at && new Date(s.expires_at).getTime() > Date.now()
HasExpiryAndNotExpired(s, t) == s.expires_at # NullInt /\ s.expires_at > t

\* the sequence StoriesTray maps over, computed when Date.now() = t
TrayItems(v, ss, t) ==
  CASE v = "part_000" -> <<SelfTile(v, t)>> \o SelectSeq(ss, LAMBDA s : NotExpired(s, t))
    [] v = "part_001" ->
         <<SelfTile(v, t)>> \o SelectSeq(ss, LAMBDA s : HasExpiryAndNotExpired(s, t))
    [] OTHER -> SelectSeq(ss, LAMBDA s : s.author_id = Viewer)
                  \o SelectSeq(ss, LAMBDA s : s.author_id # Viewer)

\* the memo of StoriesTray runs: its dependency, the stories list, changed
TrayMemo(v, ss, t) == [at |-> t, items |-> TrayItems(v, ss, t)]

\* App has mounted, the stories are loaded and StoriesTray has rendered
InitStories ==
  /\ NoCompose
  /\ NoFollow
  /\ variant \in Variants
  /\ now = MountAt
  /\ stories \in StoryStores(variant)
  /\ tray = TrayMemo(variant, stories, now)
  /\ tick = 0
  /\ pruned = 0
  /\ session = Viewer
  /\ posts = <<>>
  /\ followingIds = {}
  /\ activeTab = "forYou"
  /\ search = <<>>
  /\ runs = <<>>
  /\ srvPosts = InitListsRows
  /\ srvLikes = {}
  /\ srvRecasts = {}
  /\ likedPosts = <<>>
  /\ recastedPosts = <<>>
  /\ userLikes = {}
  /\ newText = <<>>
  /\ newFiles = <<>>
  /\ chan = <<>>
  /\ calls = <<>>
  /\ nextLocal = 0
  /\ serial = {}
  /\ last = NoLast
  /\ run = "serial"
  /\ ntoggles = 0
  /\ NoProfile
  /\ sorting = NoSort

\* time passes
StoryClock(d) ==
  /\ now + d <= MountAt + MaxStoryTicks * Period
  /\ now' = now + d
  /\ UNCHANGED <<feedVars, storyVars>>

\* setInterval(() => setTick((n) => n + 1), 60_000): App renders again; the stories
\* list is the same array, so the memo of StoriesTray keeps its value
TimeAgoTick ==
  /\ variant \in {"part_000", "part_001"}
  /\ now >= MountAt + (tick + 1) * Period
  /\ tick' = tick + 1
  /\ UNCHANGED <<feedVars, now, variant, stories, tray, pruned>>

\* part_000, setInterval(prune, 60_000): the filter stores a new array, the memo runs
Prune ==
  /\ variant = "part_000"
  /\ now >= MountAt + (pruned + 1) * Period
  /\ pruned' = pruned + 1
  /\ stories' = SelectSeq(stories, LAMBDA s : NotExpired(s, now))
  /\ tray' = TrayMemo(variant, stories', now)
  /\ UNCHANGED <<feedVars, now, variant, tick>>

\* s with e put in before position k
InsertAt(s, k, e) == SubSeq(s, 1, k - 1) \o <<e>> \o SubSeq(s, k, Len(s))

\* publish with kind story: the new story expires a day later. part_000 and part_001
\* put it at the head of the list; App.tsx adds a document and the next snapshot
\* replaces the list, the new document at the place the collection gives it
AddStory ==
  /\ variant \in Variants
  /\ Len(stories) < MaxStories
  /\ \E id \in 1 .. MaxStories :
       /\ \A i \in 1 .. Len(stories) : stories[i].id # id
       /\ \E k \in 1 .. Len(stories) + 1 :
            /\ variant \in {"part_000", "part_001"} => k = 1
            /\ stories' = InsertAt(stories, k, Story(id, Viewer, now, now + StoryTtl))
  /\ tray' = TrayMemo(variant, stories', now)
  /\ UNCHANGED <<feedVars, now, variant, tick, pruned>>

NextStories ==
  \/ \E d \in {Period \div 2, Period} : StoryClock(d)
  \/ TimeAgoTick
  \/ Prune
  \/ AddStory

SpecStories == InitStories /\ [][NextStories]_vars

\* ============================================================ profile screen
BioLimit   == 200   \* draftBio.slice(0, 200)
LinksLimit == 3     \* .slice(0, 3)

\* "\n"
Nl == "\n"

\* texts of the bio field: empty, short, at the limit, one over
Bios == {<<>>, <<"a">>, [i \in 1 .. BioLimit |-> "a"], [i \in 1 .. BioLimit + 1 |-> "a"]}

\* texts of the links field
LinkDrafts ==
  { <<>>,
    <<"x">>,
    <<"x", " ", "y">>,
    <<"x", Nl, " ", Nl, "y", Nl, Nl, "z">>,
    <<"x", Nl, "y", Nl, " ", "z", " ", Nl, "w">> }

RECURSIVE SkipSeps(_, _)
SkipSeps(t, seps) == IF t # <<>> /\ Head(t) \in seps THEN SkipSeps(Tail(t), seps) ELSE t

\* String.prototype.split(/[seps]+/): cur is the piece being read
RECURSIVE SplitOn(_, _, _)
SplitOn(t, seps, cur) ==
  IF t = <<>> THEN <<cur>>
  ELSE IF Head(t) \in seps THEN <<cur>> \o SplitOn(SkipSeps(Tail(t), seps), seps, <<>>)
  ELSE SplitOn(Tail(t), seps, Append(cur, Head(t)))

\* .map((s) => s.trim())
TrimAll(ls) == [i \in 1 .. Len(ls) |-> Trim(ls[i])]

\* .filter(Boolean): the empty string is falsy
NonEmpty(ls) == SelectSeq(ls, LAMBDA l : l # <<>>)

\* part_000, part_001: draftLinks.split(/\n+/).map((s) => s.trim()).filter(Boolean).slice(0, 3)
NextLinks(t) == Slice(NonEmpty(TrimAll(SplitOn(t, {Nl}, <<>>))), LinksLimit)

\* App.tsx: draftLinks.split(/\s+/).filter(Boolean)
NextLinksApp(t) == NonEmpty(SplitOn(t, {Nl, " "}, <<>>))

\* draftBio.slice(0, 200)
NextBio(t) == Slice(t, BioLimit)

\* what a save writes
Updates(v, bio, links) ==
  Profile(NextBio(bio), IF v = "App" THEN NextLinksApp(links) ELSE NextLinks(links))

\* the local state after a save: part_000 returns before setState when the update
\* failed, part_001 does not look at the outcome, App.tsx keeps no bio or links
ProfileAfter(v, cur, upd, ok) ==
  CASE v = "part_000" -> IF ok THEN upd ELSE cur
    [] v = "part_001" -> upd
    [] OTHER -> cur

\* the profile screen of the viewer is open
InitProfile ==
  /\ NoCompose
  /\ NoFollow
  /\ variant \in Variants
  /\ NoProfile
  /\ sorting = NoSort
  /\ now = MountAt
  /\ stories = <<>>
  /\ tray = TrayMemo(variant, stories, now)
  /\ tick = 0
  /\ pruned = 0
  /\ session = Viewer
  /\ posts = <<>>
  /\ followingIds = {}
  /\ activeTab = "forYou"
  /\ search = <<>>
  /\ runs = <<>>
  /\ srvPosts = InitListsRows
  /\ srvLikes = {}
  /\ srvRecasts = {}
  /\ likedPosts = <<>>
  /\ recastedPosts = <<>>
  /\ userLikes = {}
  /\ newText = <<>>
  /\ newFiles = <<>>
  /\ chan = <<>>
  /\ calls = <<>>
  /\ nextLocal = 0
  /\ serial = {}
  /\ last = NoLast
  /\ run = "serial"
  /\ ntoggles = 0

\* onChange={(e) => setDraftBio(e.target.value)}
SetDraftBio(t) ==
  /\ t # draftBio
  /\ draftBio' = t
  /\ UNCHANGED <<coreVars, now, storyVars, draftLinks, profile, srvProfile>>

\* onChange={(e) => setDraftLinks(e.target.value)}
SetDraftLinks(t) ==
  /\ t # draftLinks
  /\ draftLinks' = t
  /\ UNCHANGED <<coreVars, now, storyVars, draftBio, profile, srvProfile>>

\* saveProfile (handleUpdateProfile in App.tsx); ok: the remote update succeeded
SaveProfile(ok) ==
  LET upd == Updates(variant, draftBio, draftLinks)
  IN /\ srvProfile' = IF ok THEN upd ELSE srvProfile
     /\ profile' = ProfileAfter(variant, profile, upd, ok)
     /\ UNCHANGED <<coreVars, now, storyVars, draftBio, draftLinks>>

NextProfile ==
  \/ \E t \in Bios : SetDraftBio(t)
  \/ \E t \in LinkDrafts : SetDraftLinks(t)
  \/ \E ok \in BOOLEAN : SaveProfile(ok)

SpecProfile == InitProfile /\ [][NextProfile]_vars

\* ========================================================= claims: ranking
\* the run whose output the feed shows
LastRun == runs[Len(runs)]

SameInputs(r1, r2) ==
  /\ r1.posts = r2.posts
  /\ r1.tab = r2.tab
  /\ r1.search = r2.search
  /\ r1.following = r2.following
  /\ r1.now = r2.now

C17_ForYouOrder ==
  LastRun.tab = "forYou" =>
    \A i, j \in 1 .. Len(LastRun.out) :
      i < j =>
        LET a == LastRun.out[i]
            b == LastRun.out[j]
        IN \/ score(a, LastRun.now) > score(b, LastRun.now)
           \/ (score(a, LastRun.now) = score(b, LastRun.now) /\ a.id < b.id)

MaxBump == 2   \* how far a counter is raised when two posts are compared

\* creation times a post is moved to
RankCreated == {0, HourMs \div 2, HourMs, now, now + HourMs}

\* the recency term of score(p, t), in the units of score
Bonus(p, t) == score(p, t) - engagement(p) * HourMs

\* C18: raising likes, recasts or comments of a post by k > 0 never lowers its score,
\* a newer post with the same counters scores at least as much, and the recency
\* bonus is between 0 and 12 (in units of 1 / 3_600_000: 0 and 12 * 3_600_000).
C18_ScoreMonotonic ==
  \A i \in 1 .. Len(posts) :
    LET p == posts[i]
    IN /\ \A k \in 1 .. MaxBump :
            /\ score([p EXCEPT !.likes = @ + k], now) >= score(p, now)
            /\ score([p EXCEPT !.recasts = @ + k], now) >= score(p, now)
            /\ score([p EXCEPT !.comments = @ + k], now) >= score(p, now)
       /\ \A c \in RankCreated :
            c > p.created_at => score([p EXCEPT !.created_at = c], now) >= score(p, now)
       /\ \A c \in RankCreated :
            /\ Bonus([p EXCEPT !.created_at = c], now) >= 0
            /\ Bonus([p EXCEPT !.created_at = c], now) <= MaxBonus * HourMs

\* C18's case: a forYou run on two posts older than 12 hours that differ in likes only
C18_Witness ==
  /\ LastRun.tab = "forYou"
  /\ LastRun.now = now
  /\ Len(LastRun.out) = 2
  /\ now - LastRun.out[2].created_at > MaxBonus * HourMs
  /\ LastRun.out[1].likes > LastRun.out[2].likes
  /\ [LastRun.out[1] EXCEPT !.likes = LastRun.out[2].likes, !.id = LastRun.out[2].id]
       = LastRun.out[2]
  /\ score(LastRun.out[1], now) > score(LastRun.out[2], now)

\* C19: in tab latest the output is in descending order of created_at, and posts with
\* equal created_at are in ascending order of id.
C19_LatestOrder ==
  LastRun.tab = "latest" =>
    \A i, j \in 1 .. Len(LastRun.out) :
      i < j =>
        LET a == LastRun.out[i]
            b == LastRun.out[j]
        IN a.created_at > b.created_at \/ (a.created_at = b.created_at /\ a.id < b.id)

\* the entries of a sequence
Entries(sq) == {sq[i] : i \in 1 .. Len(sq)}

\* C20: with no search string, tab following shows exactly the posts of the viewer and
\* of the users the viewer follows, and the other tabs show every post.
C20_ScopeFilter ==
  Trim(LastRun.search) = <<>> =>
    LET kept == IF LastRun.tab = "following"
                THEN {p \in Entries(LastRun.posts) :
                        p.author_id = Viewer \/ p.author_id \in LastRun.following}
                ELSE Entries(LastRun.posts)
    IN Entries(LastRun.out) = kept /\ Len(LastRun.out) = Cardinality(kept)

\* C20's case: tab following kept the viewer's post and dropped the other one
C20_Witness ==
  /\ LastRun.tab = "following"
  /\ Trim(LastRun.search) = <<>>
  /\ Len(LastRun.posts) = 2
  /\ Len(LastRun.out) = 1
  /\ LastRun.out[1].author_id = Viewer

\* t contains s when case is ignored: some stretch of t reads as s
ContainsCI(t, s) ==
  \E i \in 0 .. Len(t) - Len(s) : ToLowerCase(SubSeq(t, i + 1, i + Len(s))) = ToLowerCase(s)

\* the post text or the author's display name contains s when case is ignored
TextOrNameHas(p, s) ==
  \/ ContainsCI(p.text, s)
  \/ (NameOf(p.author_id) # NullSeq /\ ContainsCI(NameOf(p.author_id), s))

\* the ordered sequence the run filters: the output for the same list, tab, follow set
\* and clock with no search string
Ordered(r) == filtered(r.posts, r.tab, <<>>, r.following, r.now)

\* C21 as stated: with a non-empty search string the output is the ordered sequence
\* restricted to exactly the posts whose text or author name contains the search
\* string, case ignored, in unchanged relative order; an empty search string removes
\* no post.
C21_SearchFilter ==
  LastRun.out =
    IF LastRun.search # <<>>
    THEN SelectSeq(Ordered(LastRun), LAMBDA p : TextOrNameHas(p, LastRun.search))
    ELSE Ordered(LastRun)

\* C21 amended: the string that is matched is the search string without its leading
\* and trailing whitespace, and a search string that is empty after that removes no
\* post.
C21_TrimmedSearchFilter ==
  LastRun.out =
    IF Trim(LastRun.search) # <<>>
    THEN SelectSeq(Ordered(LastRun), LAMBDA p : TextOrNameHas(p, Trim(LastRun.search)))
    ELSE Ordered(LastRun)

\* C21's case: a search with a leading blank and an upper-case letter kept the second
\* post of the ordered sequence by its author's name and dropped the first
C21_Witness ==
  /\ LastRun.search = <<" ", "B">>
  /\ Len(Ordered(LastRun)) = 2
  /\ LastRun.out = <<Ordered(LastRun)[2]>>
  /\ ~ContainsCI(LastRun.out[1].text, <<"B">>)

\* a step in which the memo ran
MemoRan == runs' # runs

\* C22: a run of the pipeline leaves the posts list (contents and order), the flags and
\* the follow set as they were, in every tab and for every search string.
C22_StoreUntouched ==
  [][MemoRan => /\ posts' = posts
                /\ likedPosts' = likedPosts
                /\ recastedPosts' = recastedPosts
                /\ followingIds' = followingIds]_vars

\* C22's case: a sorting run returned two posts in another order than the list's,
\* and the list is as the run read it
C22_Witness ==
  /\ Len(runs) = 2
  /\ LastRun.tab \in {"forYou", "latest"}
  /\ Len(LastRun.out) = 2
  /\ LastRun.out # LastRun.posts
  /\ posts = LastRun.posts

\* ========================================================= claims: stories
\* the visible stories: what StoriesTray shows
Visible == tray.items

IsVisible(s) == \E j \in 1 .. Len(Visible) : Visible[j] = s

\* C23: a story of the list is in the visible set iff its expiry is strictly greater
\* than the clock value the visible set was computed at (expiry 1 s before: excluded,
\* 1 s after: included, equal: excluded).
C23_VisibleIffUnexpired ==
  \A i \in 1 .. Len(stories) :
    IsVisible(stories[i]) <=>
      (stories[i].expires_at # NullInt /\ stories[i].expires_at > tray.at)

\* the 60 s timer that refreshes the stories fired: the prune interval in part_000, the
\* tick interval in part_001
RefreshFired ==
  \/ (variant = "part_000" /\ pruned' # pruned)
  \/ (variant = "part_001" /\ tick' # tick)

\* C24: once the 60 s refresh timer has fired, no story whose expiry has passed is in
\* the visible set, also when the stories list was not changed in between.
C24_RefreshedOnTick ==
  [][RefreshFired =>
       \A j \in 1 .. Len(tray'.items) :
         tray'.items[j].id # SelfId => tray'.items[j].expires_at > now']_vars

\* C25: in the visible sequence no story of another user comes before a story of the
\* viewer.
C25_OwnStoryFirst ==
  \A i, j \in 1 .. Len(Visible) :
    (i < j /\ Visible[j].author_id = Viewer) => Visible[i].author_id = Viewer

\* ========================================================= claims: profile
\* C26: the bio in the local state and in the remote table has at most 200 characters
\* and the links list at most 3 entries: true before the first save, and every save
\* keeps it.
C26_ProfileLimits ==
  /\ Len(profile.bio) <= BioLimit
  /\ Len(profile.links) <= LinksLimit
  /\ Len(srvProfile.bio) <= BioLimit
  /\ Len(srvProfile.links) <= LinksLimit

\* ========================================================= claims: composer
MediaLimit == 4   \* Array.from(files).slice(0, 4)

\* C27: every post the composer creates has, in the local list and in the remote
\* table, a text of at most 500 characters and at most 4 media references.
C27_ComposedPostLimits ==
  /\ \A i \in 1 .. Len(posts) :
       Len(posts[i].text) <= TextLimit /\ Len(posts[i].media) <= MediaLimit
  /\ \A id \in SrvIds :
       srvPosts[id] \notin {NoRow, GoneRow} =>
         /\ Len(srvPosts[id].text) <= TextLimit
         /\ Len(srvPosts[id].media) <= MediaLimit

\* ================================================ claims: optimistic toggle
\* the viewer's like flag of post p: the userLikes map (part_002) or the likedPosts
\* array (part_001)
LikeFlag(map, arr, p) == p \in map \/ Includes(arr, p)

\* a like toggle was invoked in this step and its remote call is now pending
LikeInvoked ==
  /\ Len(calls') = Len(calls) + 1
  /\ calls'[Len(calls')].kind = "like"

\* C28: when a like toggle is invoked, the flag is flipped and the likes counter moved
\* by one in the same step, so both are observable while the remote call is pending.
C28_PatchBeforeRemote ==
  [][LikeInvoked =>
       LET p == calls'[Len(calls')].post
           was == LikeFlag(userLikes, likedPosts, p)
       IN /\ LikeFlag(userLikes', likedPosts', p) = ~was
          /\ LikesOf(posts', p) = LikesOf(posts, p) + (IF was THEN 0 - 1 ELSE 1)]_vars

\* ========================================================= claims: the clock
\* C29: all the scores evaluated within one forYou sort are computed from one value
\* of the clock.
C29_NowSampledOnce == Cardinality(sorting.reads) <= 1

\* ================================================= claims: realtime UPDATE
\* C30: merging an UPDATE event for id X keeps the length and the order of the list,
\* leaves every entry with another id as it was, and leaves the whole list as it was
\* when no entry has id X.
C30_UpdateFrame ==
  [][(MergeStep /\ Head(chan).kind = "UPDATE") =>
       LET x == Head(chan).row.id
       IN /\ Len(posts') = Len(posts)
          /\ \A i \in 1 .. Len(posts) :
               /\ posts'[i].id = posts[i].id
               /\ posts[i].id # x => posts'[i] = posts[i]
          /\ ~HasId(posts, x) => posts' = posts]_vars

\* C30's case: the list holds post 2 as it was inserted and, behind it, post 1 with
\* the text an UPDATE brought
C30_Witness ==
  /\ Len(posts) = 2
  /\ posts[1].id = 2
  /\ posts[2].id = 1
  /\ posts[1].text = <<"a">>
  /\ posts[2].text = <<"b">>
  /\ chan = <<>>

\* ========================================================= claims: the cap
\* C31: the posts list never holds more than 500 entries.
C31_FeedBounded == Len(posts) <= PostsCap

\* ===================================================== claims: publish resolves
\* a publishPost invocation is pending
PublishPending == \E i \in 1 .. Len(calls) : calls[i].kind = "publish"

\* C32: once no publishPost invocation is pending, no entry of the posts list has a
\* temporary local id or the optimistic mark, whether the publishes succeeded or
\* failed (in the upload or in the insert).
C32_OptimisticResolved ==
  ~PublishPending =>
    \A j \in 1 .. Len(posts) : posts[j].id <= LocalBase /\ ~posts[j].optimistic

\* C32's case: the one publish failed in its media upload and its optimistic post
\* is gone
C32_Witness ==
  /\ last.outcome = "failed"
  /\ last.call.kind = "publish"
  /\ last.call.pc = "upload"
  /\ ~PublishPending
  /\ nextLocal = 1
  /\ ~HasId(posts, last.call.post)

\* ========================================================= claims: sign-out
\* C33: while no session exists the like-flag map is empty, also after a toggleLike
\* that was dispatched before signOut has resolved.
C33_FlagsEmptyAfterSignOut == session = Null => userLikes = {}

\* ------------------------------------------------------------ the Composer
MaxCompose    == 2                    \* publish invocations per behaviour
ComposeTexts  == {<<>>, <<"a">>}
ComposeImages == {<<>>, <<"i">>}
Kinds         == {"post", "story"}

\* a post and a story as the Composer writes them
ComposePost(id, text, images) == [id |-> id, userId |-> Viewer, text |-> text, media |-> images]

ComposeStory(id, url) == [id |-> id, userId |-> Viewer, url |-> url]

\* images[0] || placeholderImg(...)
StoryUrl(images) == IF images = <<>> THEN "placeholder" ELSE images[1]

\* uid(), and the ids the server assigns: an id no row and no entry has yet
FreshOf(a, b) ==
  LET ids == {a[i].id : i \in 1 .. Len(a)} \cup {b[i].id : i \in 1 .. Len(b)}
  IN 1 + Cardinality(ids)

\* the checks at the head of publish
Rejects(v, kind, text, images) ==
  IF v = "App"
    THEN \/ kind = "post" /\ Trim(text) = <<>> /\ images = <<>>
         \/ kind = "story" /\ images = <<>>
    ELSE Trim(text) = <<>> /\ images = <<>>

\* the first remote write of publish: part_000 inserts a post whatever the kind
FirstWrite(v, kind) == IF v = "part_000" THEN "post" ELSE kind

\* a publish invocation is between its first await and its end
InFlight(p) == p.pc \in {"post", "story"}

\* setText(""), setImages([])
ClearedDraft == [text |-> <<>>, images |-> <<>>]

InitCompose ==
  /\ variant \in Variants
  /\ draft = ClearedDraft
  /\ pub = NoPub
  /\ store = [posts |-> <<>>, stories |-> <<>>]
  /\ remote = [posts |-> <<>>, stories |-> <<>>]
  /\ NoFollow
  /\ NoProfile
  /\ sorting = NoSort
  /\ now = MountAt
  /\ stories = <<>>
  /\ tray = TrayMemo(variant, stories, now)
  /\ tick = 0
  /\ pruned = 0
  /\ session = Viewer
  /\ posts = <<>>
  /\ followingIds = {}
  /\ activeTab = "forYou"
  /\ search = <<>>
  /\ runs = <<>>
  /\ srvPosts = InitListsRows
  /\ srvLikes = {}
  /\ srvRecasts = {}
  /\ likedPosts = <<>>
  /\ recastedPosts = <<>>
  /\ userLikes = {}
  /\ newText = <<>>
  /\ newFiles = <<>>
  /\ chan = <<>>
  /\ calls = <<>>
  /\ nextLocal = 0
  /\ serial = {}
  /\ last = NoLast
  /\ run = "serial"
  /\ ntoggles = 0

\* everything but the Composer
composeFrame == <<session, posts, userLikes, newText, newFiles, now, srvPosts, srvLikes, chan,
                  calls, nextLocal, serial, last, likedPosts, recastedPosts, srvRecasts, run,
                  ntoggles, rankVars, storyVars, profileVars, sorting, followVars>>

SetText(t) ==
  /\ draft' = [draft EXCEPT !.text = t]
  /\ UNCHANGED <<pub, store, remote, composeFrame>>

SetImages(im) ==
  /\ draft' = [draft EXCEPT !.images = im]
  /\ UNCHANGED <<pub, store, remote, composeFrame>>

\* publish returns at its checks
PublishRejected(kind) ==
  /\ ~InFlight(pub)
  /\ Rejects(variant, kind, draft.text, draft.images)
  /\ pub' = [pub EXCEPT !.pc = "rejected", !.kind = kind, !.ok = FALSE]
  /\ UNCHANGED <<draft, store, remote, composeFrame>>

\* publish up to its first await; text and images are those of the render
PublishStart(kind) ==
  /\ ~InFlight(pub)
  /\ pub.n < MaxCompose
  /\ ~Rejects(variant, kind, draft.text, draft.images)
  /\ pub' = [ pc |-> FirstWrite(variant, kind), kind |-> kind, text |-> draft.text,
              images |-> draft.images, ok |-> TRUE, n |-> pub.n + 1,
              post |-> IF variant = "part_000"
                         THEN ComposePost(FreshOf(store.posts, remote.posts),
                                          Slice(draft.text, TextLimit), draft.images)
                         ELSE NoPub.post,
              base |-> [lp |-> Len(store.posts), ls |-> Len(store.stories),
                        rp |-> Len(remote.posts), rs |-> Len(remote.stories)] ]
  /\ UNCHANGED <<draft, store, remote, composeFrame>>

\* the insert into posts answers
PostInsertDone(ok) ==
  LET newPost == IF variant = "part_000"
                   THEN pub.post
                   ELSE ComposePost(FreshOf(store.posts, remote.posts),
                                    Slice(pub.text, TextLimit), pub.images)
      written == IF ok THEN [remote EXCEPT !.posts = Append(@, newPost)] ELSE remote
      local   == [store EXCEPT !.posts = <<newPost>> \o @]
  IN /\ pub.pc = "post"
     /\ remote' = written
     /\ CASE variant = "part_000" /\ ~ok ->
               /\ pub' = [pub EXCEPT !.pc = "failed", !.ok = FALSE]
               /\ UNCHANGED <<draft, store>>
          [] variant = "part_000" /\ ok /\ pub.kind = "story" /\ pub.images # <<>> ->
               /\ pub' = [pub EXCEPT !.pc = "story"]
               /\ UNCHANGED <<draft, store>>
          [] variant = "part_000" /\ ok /\ ~(pub.kind = "story" /\ pub.images # <<>>) ->
               /\ pub' = [pub EXCEPT !.pc = "done"]
               /\ store' = local
               /\ draft' = ClearedDraft
          [] variant = "part_001" ->
               /\ pub' = [pub EXCEPT !.pc = "done", !.ok = ok]
               /\ store' = IF ok THEN local ELSE store
               /\ draft' = ClearedDraft
          [] variant = "App" /\ ok ->
               /\ pub' = [pub EXCEPT !.pc = "done"]
               /\ draft' = ClearedDraft
               /\ UNCHANGED store
          [] variant = "App" /\ ~ok ->
               /\ pub' = [pub EXCEPT !.pc = "failed", !.ok = FALSE]
               /\ UNCHANGED <<draft, store>>
     /\ UNCHANGED composeFrame

\* the insert into stories answers
StoryInsertDone(ok) ==
  LET sid      == FreshOf(store.stories, remote.stories)
      newStory == ComposeStory(sid, StoryUrl(pub.images))
      written  == IF ok THEN [remote EXCEPT !.stories = Append(@, newStory)] ELSE remote
  IN /\ pub.pc = "story"
     /\ remote' = written
     /\ CASE variant = "part_000" ->
               \* a second uid() names the entry of the local store
               /\ pub' = [pub EXCEPT !.pc = "done", !.ok = ok]
               /\ store' = [ posts   |-> <<pub.post>> \o store.posts,
                             stories |-> <<ComposeStory(FreshOf(store.stories, written.stories),
                                                        StoryUrl(pub.images))>>
                                           \o store.stories ]
               /\ draft' = ClearedDraft
          [] variant = "part_001" ->
               /\ pub' = [pub EXCEPT !.pc = "done", !.ok = ok]
               /\ store' = IF ok THEN [store EXCEPT !.stories = <<newStory>> \o @] ELSE store
               /\ draft' = ClearedDraft
          [] variant = "App" /\ ok ->
               /\ pub' = [pub EXCEPT !.pc = "done"]
               /\ draft' = ClearedDraft
               /\ UNCHANGED store
          [] variant = "App" /\ ~ok ->
               /\ pub' = [pub EXCEPT !.pc = "failed", !.ok = FALSE]
               /\ UNCHANGED <<draft, store>>
     /\ UNCHANGED composeFrame

\* App.tsx: the onSnapshot listeners replace the lists of the store
Snapshot ==
  /\ variant = "App"
  /\ store # remote
  /\ store' = remote
  /\ UNCHANGED <<draft, pub, remote, composeFrame>>

NextCompose ==
  \/ \E t \in ComposeTexts : SetText(t)
  \/ \E im \in ComposeImages : SetImages(im)
  \/ \E kind \in Kinds : PublishRejected(kind)
  \/ \E kind \in Kinds : PublishStart(kind)
  \/ \E ok \in BOOLEAN : PostInsertDone(ok)
  \/ \E ok \in BOOLEAN : StoryInsertDone(ok)
  \/ Snapshot

SpecCompose == InitCompose /\ [][NextCompose]_vars

\* ------------------------------------------------------- the follow button
MaxFollowCalls   == 2                    \* toggleFollow invocations in flight
MaxFollowToggles == 3                    \* toggleFollow invocations per behaviour
FollowUsers      == {Viewer, Author, Stranger}

\* a toggleFollow invocation: the user of the profile, following.includes(userId) and
\* the following array of the render it was made in, its position, and whether it
\* ran with no other invocation in flight
FollowCall(user, was, closure, pc, alone) ==
  [kind |-> "follow", user |-> user, was |-> was, closure |-> closure, pc |-> pc,
   alone |-> alone, list |-> <<>>]

\* isFollowing ? following.filter((id) => id !== userId) : [...following, userId]
Flipped(following, userId, isFollowing) ==
  IF isFollowing THEN Without(following, userId) ELSE Append(following, userId)

\* the following table after a delete().match(...) or an insert(...)
RowsAfter(rows, userId, isFollowing) ==
  IF isFollowing THEN Without(rows, userId) ELSE Append(rows, userId)

\* the following collection after deleteDoc(followRef) or setDoc(followRef, ...)
DocsAfter(docs, userId, isFollowing) ==
  IF isFollowing THEN Without(docs, userId)
  ELSE IF Includes(docs, userId) THEN docs ELSE Append(docs, userId)

NotAlone(cs) == [i \in 1 .. Len(cs) |-> [cs[i] EXCEPT !.alone = FALSE]]

InitFollow ==
  /\ variant \in Variants
  /\ route = Author
  /\ followList \in {<<>>, <<Stranger>>}
  /\ srvFollowing = followList
  /\ fcalls = <<>>
  /\ NoCompose
  /\ NoProfile
  /\ sorting = NoSort
  /\ now = MountAt
  /\ stories = <<>>
  /\ tray = TrayMemo(variant, stories, now)
  /\ tick = 0
  /\ pruned = 0
  /\ session = Viewer
  /\ posts = <<>>
  /\ followingIds = {}
  /\ activeTab = "forYou"
  /\ search = <<>>
  /\ runs = <<>>
  /\ srvPosts = InitListsRows
  /\ srvLikes = {}
  /\ srvRecasts = {}
  /\ likedPosts = <<>>
  /\ recastedPosts = <<>>
  /\ userLikes = {}
  /\ newText = <<>>
  /\ newFiles = <<>>
  /\ chan = <<>>
  /\ calls = <<>>
  /\ nextLocal = 0
  /\ serial = {}
  /\ last = NoLast
  /\ run = "serial"
  /\ ntoggles = 0

\* everything but the follow button
followFrame == <<session, posts, userLikes, newText, newFiles, now, srvPosts, srvLikes, chan,
                 calls, nextLocal, serial, likedPosts, recastedPosts, srvRecasts, run,
                 rankVars, storyVars, profileVars, sorting, composeVars>>

\* openProfile(userId)
OpenProfile(u) ==
  /\ route # u
  /\ route' = u
  /\ last' = NoLast
  /\ UNCHANGED <<followList, srvFollowing, fcalls, ntoggles, followFrame>>

\* the follow button of the viewer's own profile: part_000 and part_001 return at
\* isMe, App.tsx renders the edit button in its place
ToggleFollowSelf ==
  /\ route = Viewer
  /\ last' = Resolved(FollowCall(route, Includes(followList, route), followList, "self", TRUE),
                      "rejected", Null)
  /\ UNCHANGED <<route, followList, srvFollowing, fcalls, ntoggles, followFrame>>

\* part_000: toggleFollow has no await and writes the local state only
ToggleFollowSync ==
  LET c == FollowCall(route, Includes(followList, route), followList, "done", TRUE)
  IN /\ variant = "part_000"
     /\ route # Viewer
     /\ ntoggles < MaxFollowToggles
     /\ ntoggles' = ntoggles + 1
     /\ followList' = Flipped(c.closure, c.user, c.was)
     /\ last' = Resolved(c, "done", Null)
     /\ UNCHANGED <<route, srvFollowing, fcalls, followFrame>>

\* part_001, App.tsx: toggleFollow up to its await
ToggleFollow ==
  /\ variant \in {"part_001", "App"}
  /\ route # Viewer
  /\ ntoggles < MaxFollowToggles
  /\ Len(fcalls) < MaxFollowCalls
  /\ ntoggles' = ntoggles + 1
  /\ fcalls' = Append(NotAlone(fcalls),
                      FollowCall(route, Includes(followList, route), followList, "write",
                                 fcalls = <<>>))
  /\ last' = NoLast
  /\ UNCHANGED <<route, followList, srvFollowing, followFrame>>

\* part_001: the delete or insert answers; its error is not read, and the array of
\* the render is written back
FollowWritten(i, ok) ==
  LET c == fcalls[i]
  IN /\ variant = "part_001"
     /\ c.pc = "write"
     /\ srvFollowing' = IF ok THEN RowsAfter(srvFollowing, c.user, c.was) ELSE srvFollowing
     /\ followList' = Flipped(c.closure, c.user, c.was)
     /\ fcalls' = RemoveAt(fcalls, i)
     /\ last' = Resolved(c, IF ok THEN "done" ELSE "failed", Null)
     /\ UNCHANGED <<route, ntoggles, followFrame>>

\* App.tsx: deleteDoc or setDoc answers; a rejection ends the invocation, otherwise
\* onFollowChange starts fetchFollowing
FollowDocWritten(i, ok) ==
  LET c == fcalls[i]
  IN /\ variant = "App"
     /\ c.pc = "write"
     /\ srvFollowing' = IF ok THEN DocsAfter(srvFollowing, c.user, c.was) ELSE srvFollowing
     /\ fcalls' = IF ok THEN [fcalls EXCEPT ![i].pc = "fetch"] ELSE RemoveAt(fcalls, i)
     /\ last' = IF ok THEN NoLast ELSE Resolved(c, "failed", Null)
     /\ UNCHANGED <<route, followList, ntoggles, followFrame>>

\* App.tsx fetchFollowing: getDocs reads the collection
FollowFetched(i) ==
  /\ variant = "App"
  /\ fcalls[i].pc = "fetch"
  /\ fcalls' = [fcalls EXCEPT ![i].pc = "set", ![i].list = srvFollowing]
  /\ last' = NoLast
  /\ UNCHANGED <<route, followList, srvFollowing, ntoggles, followFrame>>

\* App.tsx fetchFollowing: setFollowing(followingList)
FollowSet(i) ==
  /\ variant = "App"
  /\ fcalls[i].pc = "set"
  /\ followList' = fcalls[i].list
  /\ fcalls' = RemoveAt(fcalls, i)
  /\ last' = Resolved(fcalls[i], "done", Null)
  /\ UNCHANGED <<route, srvFollowing, ntoggles, followFrame>>

NextFollow ==
  \/ \E u \in FollowUsers : OpenProfile(u)
  \/ ToggleFollowSelf
  \/ ToggleFollowSync
  \/ ToggleFollow
  \/ \E i \in 1 .. Len(fcalls) : \E ok \in BOOLEAN : FollowWritten(i, ok)
  \/ \E i \in 1 .. Len(fcalls) : \E ok \in BOOLEAN : FollowDocWritten(i, ok)
  \/ \E i \in 1 .. Len(fcalls) : FollowFetched(i)
  \/ \E i \in 1 .. Len(fcalls) : FollowSet(i)

SpecFollow == InitFollow /\ [][NextFollow]_vars

\* ==================================================== claims: no session
NextGuard ==
  \/ NextPublish
  \/ \E p \in PostIdsShown : ToggleLikeNoSession(p)

SpecGuard == Init /\ [][NextGuard]_vars

\* the alerts of toggleLike and publishPost when no user is signed in
NoSessionAlerts == {"Sign in to like", "Sign in first"}

Made ==
  [ lp |-> Len(store.posts) - pub.base.lp, ls |-> Len(store.stories) - pub.base.ls,
    rp |-> Len(remote.posts) - pub.base.rp, rs |-> Len(remote.stories) - pub.base.rs ]

\* App.tsx: the store showed the collections when the publish began and shows them now
InStep == variant = "App" => store = remote /\ pub.base.lp = pub.base.rp /\ pub.base.ls = pub.base.rs

\* C35: a publish whose remote writes succeeded has added exactly one story and no
\* post when its kind is story, and exactly one post and no story when its kind is
\* post, to the local store and to the remote tables alike.
C35_OneOfKind ==
  (pub.pc = "done" /\ pub.ok /\ InStep) =>
    Made = IF pub.kind = "story"
             THEN [lp |-> 0, ls |-> 1, rp |-> 0, rs |-> 1]
             ELSE [lp |-> 1, ls |-> 0, rp |-> 1, rs |-> 0]

\* ======================================================== claims: following
\* the members of an array
Members(s) == {s[i] : i \in 1 .. Len(s)}

\* no id occurs twice
NoDuplicate(s) == Cardinality(Members(s)) = Len(s)

\* C36: a step changes the membership of a user in the follow set only if it is
\* the step in which a toggleFollow on that user writes the set; a toggleFollow
\* that ran with no other invocation in flight leaves the membership of its user
\* flipped, so that two of them in a row restore the set; the follow set holds no id
\* twice and never the viewer's own id.
C36_FollowFlip ==
  [][/\ \A u \in FollowUsers :
          (u \in Members(followList')) # (u \in Members(followList)) =>
             last'.call.kind = "follow" /\ last'.call.user = u
     /\ (last'.call.kind = "follow" /\ last'.outcome = "done" /\ last'.call.alone) =>
          (last'.call.user \in Members(followList')) = ~last'.call.was
     /\ NoDuplicate(followList')
     /\ Viewer \notin Members(followList')]_vars

\* ============================================================ claims: prune
\* the step is a run of the prune interval
PruneFired == pruned' # pruned

\* the ids of a list of stories
StoryIds(ss) == {ss[i].id : i \in 1 .. Len(ss)}

\* C37: a run of the prune removes the stories whose expiry is <= the clock value of
\* the run and no story whose expiry is later, keeps the remaining stories in their
\* order, and leaves posts, users, flags and the follow set as they were.
C37_PruneExact ==
  [][PruneFired =>
       /\ \A i \in 1 .. Len(stories) :
            stories[i].id \in StoryIds(stories') <=> stories[i].expires_at > now
       /\ stories' = SelectSeq(stories, LAMBDA s : s.id \in StoryIds(stories'))
       /\ UNCHANGED <<feedVars, followingIds, followList>>]_vars

\* C37's case: the first run of the prune, at the clock value at which loaded
\* stories expire, has left a story published since then in the list
C37_Witness ==
  /\ variant = "part_000"
  /\ pruned = 1
  /\ now = MountAt + Period
  /\ Len(stories) = 1
  /\ stories[1].expires_at > now

====
